---- MODULE Spec2Model ----
(***************************************************************************)
(* Model of aggregate_scores.py: the aggregation of clustbench score files *)
(* into method-level and metric-level records.                             *)
(*                                                                         *)
(* Python values are tagged records [t, v] so that None, booleans, ints,   *)
(* floats and strings can live in one dictionary.  Floats are the scores   *)
(* of the score table; a float n stands for n/1024, a grid on which        *)
(* float(...) and the subtraction of two scores are exact.                 *)
(***************************************************************************)
EXTENDS Integers, Sequences, FiniteSets, TLC

VARIABLES
    root_dirs,                     \* main: args.root_dirs, each with its tree
    pc,                            \* position in main / process_run
    ri,                            \* main: index of the root being processed
    run_dirs,                      \* process_run: run directories not yet processed
    run_dir,                       \* process_run: the current run directory
    score_files,                   \* process_run: score files not yet processed
    all_method_results,            \* process_run accumulator
    all_metric_results,            \* process_run accumulator
    all_duplicate_k_anomaly_files, \* process_run accumulator
    backends_found,                \* process_run accumulator
    timestamps_found,              \* process_run accumulator
    main_state,                    \* main: merged lists and method_df_data
    call,                          \* locals of the latest process_scores_file call
    pool                           \* main: args.cores and the multiprocessing.Pool

vars == <<root_dirs, pc, ri, run_dirs, run_dir, score_files,
          all_method_results, all_metric_results,
          all_duplicate_k_anomaly_files, backends_found, timestamps_found,
          main_state, call, pool>>

----------------------------------------------------------------------------
(* Python values *)

None == [t |-> "none", v |-> 0]
PyBool(b) == [t |-> "bool", v |-> b]
PyInt(n) == [t |-> "int", v |-> n]
PyFloat(n) == [t |-> "float", v |-> n]
PyStr(s) == [t |-> "str", v |-> s]

EmptyDict == [x \in {} |-> None]

Put(d, k, val) == [x \in (DOMAIN d) \cup {k} |-> IF x = k THEN val ELSE d[x]]

Abs(n) == IF n < 0 THEN -n ELSE n

----------------------------------------------------------------------------
(* The score table: header cells and data cells as the csv reader yields   *)
(* them.  A header cell is its text with or without surrounding double     *)
(* quotes; a data cell is a text that float() parses or rejects.           *)

\* k.strip('"')
StripQuotes(k) == k.text

\* float(data[i]) succeeds
ParsesAsFloat(tok) == tok \in {"0.5", "0.5009765625", "0.501953125"}

\* float(data[i]), in units of 1/1024
FloatOf(tok) ==
    CASE tok = "0.5" -> 512
      [] tok = "0.5009765625" -> 513
      [] tok = "0.501953125" -> 514

\* a comparison without the tolerance: any difference counts
ExceedsTolerance_AnyDifference(first, value) == first # value

\* abs(first - value) > 1e-3, for first and value in units of 1/1024
ExceedsTolerance(first, value) == Abs(first - value) * 1000 > 1024

\* one pass of the loop that fills k_values and raises duplicate_k_anomaly
RECURSIVE ScanDuplicates(_, _, _, _)
ScanDuplicates(header, data, i, acc) ==
    IF i > Len(header) THEN acc
    ELSE IF i > Len(data) THEN ScanDuplicates(header, data, i + 1, acc)
    ELSE
      LET k_cleaned == StripQuotes(header[i])
          seen == k_cleaned \in DOMAIN acc.k_values
          next ==
            IF ParsesAsFloat(data[i])
            THEN IF seen
                 THEN \* a first-seen raw string makes the subtraction raise
                      \* TypeError, which the except clause swallows
                      IF /\ acc.k_values[k_cleaned].t = "float"
                         /\ ExceedsTolerance(acc.k_values[k_cleaned].v,
                                             FloatOf(data[i]))
                      THEN [acc EXCEPT !.duplicate_k_anomaly = TRUE]
                      ELSE acc
                 ELSE [acc EXCEPT !.k_values =
                          Put(@, k_cleaned, PyFloat(FloatOf(data[i])))]
            ELSE IF seen THEN acc
                 ELSE [acc EXCEPT !.k_values = Put(@, k_cleaned, PyStr(data[i]))]
      IN ScanDuplicates(header, data, i + 1, next)

\* the value the record loop stores for a data cell
CellValue(tok) == IF ParsesAsFloat(tok) THEN PyFloat(FloatOf(tok)) ELSE PyStr(tok)

\* the loop that copies the columns into metric_result
RECURSIVE AddColumns(_, _, _, _)
AddColumns(header, data, i, rec) ==
    IF i > Len(header) THEN rec
    ELSE IF i > Len(data) THEN AddColumns(header, data, i + 1, rec)
    ELSE AddColumns(header, data, i + 1,
                    Put(rec, StripQuotes(header[i]), CellValue(data[i])))

\* f'k={true_k}'
KColumn(n) ==
    CASE n = 1 -> "k=1"
      [] n = 2 -> "k=2"
      [] n = 3 -> "k=3"
      [] n = 4 -> "k=4"
      [] OTHER -> "k=5"

\* a selection that reads the column after k = true_k
SelectScore_NextK(rec, true_k) ==
    LET true_k_col == IF true_k # None THEN PyStr(KColumn(true_k.v + 1)) ELSE None
    IN IF true_k_col # None /\ true_k_col.v \in DOMAIN rec
       THEN [rec EXCEPT !["score"] = rec[true_k_col.v],
                        !["missing_true_k_score"] = PyBool(FALSE)]
       ELSE [rec EXCEPT !["score"] = None,
                        !["missing_true_k_score"] = PyBool(true_k # None)]

\* a selection that reports a missing score whenever it finds no column
SelectScore_MissingWhenUnknown(rec, true_k) ==
    LET true_k_col == IF true_k # None THEN PyStr(KColumn(true_k.v)) ELSE None
    IN IF true_k_col # None /\ true_k_col.v \in DOMAIN rec
       THEN [rec EXCEPT !["score"] = rec[true_k_col.v],
                        !["missing_true_k_score"] = PyBool(FALSE)]
       ELSE [rec EXCEPT !["score"] = None,
                        !["missing_true_k_score"] = PyBool(TRUE)]

\* picks the score at k = true_k and sets missing_true_k_score
SelectScore(rec, true_k) ==
    LET true_k_col == IF true_k # None THEN PyStr(KColumn(true_k.v)) ELSE None
    IN IF true_k_col # None /\ true_k_col.v \in DOMAIN rec
       THEN [rec EXCEPT !["score"] = rec[true_k_col.v],
                        !["missing_true_k_score"] = PyBool(FALSE)]
       ELSE [rec EXCEPT !["score"] = None,
                        !["missing_true_k_score"] = PyBool(true_k # None)]

----------------------------------------------------------------------------
(* Directories.  A directory name is kept by the shape the patterns of the *)
(* code look for, since the patterns are all that reads it:                *)
(*   plain    a                                   (clustering, metrics...) *)
(*   dataset  dataset_generator-<a>_dataset_name-<b>                       *)
(*   method   method-<a>          or  method-<a>_seed-<c>                  *)
(*   linkage  linkage-<a>         or  linkage-<a>_seed-<c>                 *)
(*   metric   metric-<a>                                                   *)
(*   run      out<s1><a><s2><b>   with c the two separators s1 s2          *)
(* Tokens a, b are words without separators unless said otherwise; c is a  *)
(* string of digits, empty when the name has no seed suffix.               *)
(* A directory is its name and the sidecar files it holds; a path is the   *)
(* sequence of the directories from the root argument down to the          *)
(* directory that holds clustbench.scores.gz.                              *)

DirName(kind, a, b, c) == [kind |-> kind, a |-> a, b |-> b, c |-> c]
PlainDir(a) == DirName("plain", a, "", "")
DatasetDir(g, n) == DirName("dataset", g, n, "")
MethodDir(m, seed) == DirName("method", m, "", seed)
LinkageDir(l, seed) == DirName("linkage", l, "", seed)
MetricDir(m) == DirName("metric", m, "", "")
RunDir(seps, backend, timestamp) == DirName("run", backend, timestamp, seps)

\* parameters.json of a directory: absent, not valid JSON, or a JSON object
NoParams == [kind |-> "absent", d |-> EmptyDict]
BadParams == [kind |-> "invalid", d |-> EmptyDict]
Params(d) == [kind |-> "dict", d |-> d]

\* dict.get(key, default)
Get(d, key, default) == IF key \in DOMAIN d THEN d[key] ELSE default

\* the truth value Python gives a value in an if
Truthy(x) ==
    CASE x.t = "none" -> FALSE
      [] x.t = "bool" -> x.v
      [] x.t = "str" -> x.v # ""
      [] x.t = "int" -> x.v # 0
      [] x.t = "float" -> x.v # 0
      [] OTHER -> TRUE

\* an int() that reads the last digit only
DigitsToInt_LastDigit(c) ==
    CASE c = "1" -> 1
      [] c = "01" -> 1
      [] c = "2" -> 2
      [] c = "123" -> 3
      [] OTHER -> 0

\* int(<digits>)
DigitsToInt(c) ==
    CASE c = "1" -> 1
      [] c = "01" -> 1
      [] c = "2" -> 2
      [] c = "123" -> 123
      [] OTHER -> 0

Min(S) == CHOOSE x \in S : \A y \in S : x <= y
Max(S) == CHOOSE x \in S : \A y \in S : x >= y

\* os.path.basename(dir), kept as a value of its own kind
BaseName(name) == [t |-> "name", v |-> name]

----------------------------------------------------------------------------
(* Identity resolver *)

\* the sidecar lookup of extract_dataset_info: parameters.json beside the
\* path, then the recursion on dirname(dirname(path)), two levels at a time
RECURSIVE DatasetFromParams(_, _)
DatasetFromParams(dirs, i) ==
    IF i < 1 THEN <<PyStr(""), PyStr("")>>
    ELSE IF dirs[i].params.kind = "dict"
         THEN <<Get(dirs[i].params.d, "dataset_generator", PyStr("")),
                Get(dirs[i].params.d, "dataset_name", PyStr(""))>>
         ELSE DatasetFromParams(dirs, i - 2)

\* re.search finds the leftmost dataset_generator-<g>_dataset_name-<n> of
\* the whole path
extract_dataset_info(dirs) ==
    LET hits == {i \in 1..Len(dirs) : dirs[i].name.kind = "dataset"}
    IN IF hits # {}
       THEN <<PyStr(dirs[Min(hits)].name.a), PyStr(dirs[Min(hits)].name.b)>>
       ELSE DatasetFromParams(dirs, Len(dirs))

\* a normalization that keeps the hyphens
normalize_method_name_Keep(name) == name

\* name.replace('-', '_') unless the name starts with linkage-
normalize_method_name(name) ==
    CASE name = "k-means" -> "k_means"
      [] OTHER -> name

\* a compound name that normalizes the hyphen of the linkage- prefix
LinkageMethod_Underscore(parent_dir, token) ==
    CASE parent_dir = "agglomerative" /\ token = "ward" -> "agglomerative_linkage_ward"
      [] parent_dir = "fastcluster" /\ token = "ward" -> "fastcluster_linkage_ward"
      [] parent_dir = "sklearn" /\ token = "ward" -> "sklearn_linkage_ward"
      [] parent_dir = "agglomerative" /\ token = "average" -> "agglomerative_linkage_average"
      [] parent_dir = "fastcluster" /\ token = "average" -> "fastcluster_linkage_average"
      [] OTHER -> "sklearn_linkage_average"

\* f"{parent_dir}_linkage-{token}"
LinkageMethod(parent_dir, token) ==
    CASE parent_dir = "agglomerative" /\ token = "ward" -> "agglomerative_linkage-ward"
      [] parent_dir = "fastcluster" /\ token = "ward" -> "fastcluster_linkage-ward"
      [] parent_dir = "sklearn" /\ token = "ward" -> "sklearn_linkage-ward"
      [] parent_dir = "agglomerative" /\ token = "average" -> "agglomerative_linkage-average"
      [] parent_dir = "fastcluster" /\ token = "average" -> "fastcluster_linkage-average"
      [] OTHER -> "sklearn_linkage-average"

\* an int() that rejects every seed
SeedToInt_Raises(x) == [t |-> "raise", v |-> 0]

\* int(params['seed']): the integer, or "raise" for ValueError / TypeError
SeedToInt(x) ==
    CASE x.t = "int" -> PyInt(x.v)
      [] x.t = "bool" -> PyInt(IF x.v THEN 1 ELSE 0)
      [] x.t = "float" -> PyInt(x.v \div 1024)
      [] x.t = "str" /\ x.v \in {"1", "01", "2", "123"} -> PyInt(DigitsToInt(x.v))
      [] OTHER -> [t |-> "raise", v |-> 0]

MethodLevels == 5

\* the loop of extract_method_info over current_dir and its ancestors
RECURSIVE MethodWalk(_, _, _, _)
MethodWalk(dirs, i, level, result) ==
    IF level >= MethodLevels \/ i < 1 THEN result
    ELSE
      LET name == dirs[i].name
          p == dirs[i].params
          method == Get(p.d, "method", PyStr(""))
          hasMethod == p.kind = "dict" /\ Truthy(method)
          \* a method that is no string makes normalize_method_name raise
          named == hasMethod /\ method.t = "str"
          seedv == IF "seed" \in DOMAIN p.d THEN SeedToInt(p.d["seed"]) ELSE None
          fromParams == named /\ seedv.t # "raise"
          \* the assignment to result['method'] made before int() raised
          r1 == IF named THEN [result EXCEPT !.method = PyStr(normalize_method_name(method.v))]
                ELSE result
          parent_dir == IF i > 1 THEN dirs[i - 1].name ELSE PlainDir("")
      IN
      IF fromParams
      THEN [method |-> PyStr(normalize_method_name(method.v)),
            seed |-> IF "seed" \in DOMAIN p.d THEN seedv ELSE result.seed]
      ELSE IF name.kind = "method" /\ name.c # ""
      THEN [method |-> PyStr(normalize_method_name(name.a)),
            seed |-> PyInt(DigitsToInt(name.c))]
      ELSE IF name.kind = "method"
      THEN [r1 EXCEPT !.method = PyStr(normalize_method_name(name.a))]
      ELSE IF /\ name.kind = "linkage"
              /\ parent_dir.kind = "plain"
              /\ parent_dir.a \in {"agglomerative", "fastcluster", "sklearn"}
      THEN IF name.c # ""
           THEN [method |-> PyStr(LinkageMethod(parent_dir.a, name.a)),
                 seed |-> PyInt(DigitsToInt(name.c))]
           ELSE [r1 EXCEPT !.method = PyStr(LinkageMethod(parent_dir.a, name.a))]
      ELSE MethodWalk(dirs, i - 1, level + 1, r1)

extract_method_info(dirs) ==
    MethodWalk(dirs, Len(dirs), 0, [method |-> PyStr(""), seed |-> None])

\* a metric lookup that gives None when nothing names the metric
extract_metric_info_NoneWhenMissing(dirs) ==
    LET hits == {i \in 1..Len(dirs) : dirs[i].name.kind = "metric"}
        p == dirs[Len(dirs)].params
        metric == Get(p.d, "metric", PyStr(""))
    IN IF hits # {} THEN PyStr(dirs[Min(hits)].name.a)
       ELSE IF p.kind = "dict" /\ Truthy(metric) THEN metric
       ELSE None

\* re.search finds the leftmost metric-<m> of the whole path; else the
\* parameters.json beside the score file
extract_metric_info(dirs) ==
    LET hits == {i \in 1..Len(dirs) : dirs[i].name.kind = "metric"}
        p == dirs[Len(dirs)].params
        metric == Get(p.d, "metric", PyStr(""))
    IN IF hits # {} THEN PyStr(dirs[Min(hits)].name.a)
       ELSE IF p.kind = "dict" /\ Truthy(metric) THEN metric
       ELSE PyStr("")

\* a pattern that accepts out_<backend>-<timestamp> only
extract_backend_timestamp_UnderscoreHyphen(name) ==
    IF name.kind = "run" /\ name.a # "" /\ name.b # "" /\ name.c = "_-"
    THEN <<PyStr(name.a), PyStr(name.b)>>
    ELSE <<None, None>>

\* re.match(r'out[_-]([^_-]+)[_-](\d+)', basename)
extract_backend_timestamp(name) ==
    IF name.kind = "run" /\ name.a # "" /\ name.b # ""
    THEN <<PyStr(name.a), PyStr(name.b)>>
    ELSE <<None, None>>

----------------------------------------------------------------------------
(* Ground-truth resolver *)

\* a line of a label file that int(float(line.strip())) accepts
LineParses(line) == line \in {"0", "1", "1.0", "2", "2.5", "3"}

\* int(float(line.strip()))
LineToInt(line) ==
    CASE line = "0" -> 0
      [] line = "1" -> 1
      [] line = "1.0" -> 1
      [] line = "2" -> 2
      [] line = "2.5" -> 2
      [] OTHER -> 3

\* the lines the comprehension keeps: "if line.strip()"
NonBlank(lines) == {i \in 1..Len(lines) : lines[i] # ""}

\* reading one label file raises (gzip error or a line that is no number)
LabelFileRaises(f) ==
    \/ ~f.readable
    \/ \E i \in NonBlank(f.lines) : ~LineParses(f.lines[i])

\* set(labels)
unique_labels(f) == {LineToInt(f.lines[i]) : i \in NonBlank(f.lines)}

\* unique_labels after unique_labels.remove(0)
NonNoiseLabels_KeepZero(f) == unique_labels(f)

NonNoiseLabels(f) == unique_labels(f) \ {0}

\* a loop that returns the count of the first parsable file, zero included
RECURSIVE LabelLoop_AcceptZero(_, _)
LabelLoop_AcceptZero(label_files, j) ==
    IF j > Len(label_files) THEN <<None, None>>
    ELSE IF LabelFileRaises(label_files[j]) THEN LabelLoop_AcceptZero(label_files, j + 1)
    ELSE <<PyInt(Cardinality(NonNoiseLabels(label_files[j]))),
           PyBool(0 \in unique_labels(label_files[j]))>>

\* the loop over label_files: the first file giving true_k > 0 wins
RECURSIVE LabelLoop(_, _)
LabelLoop(label_files, j) ==
    IF j > Len(label_files) THEN <<None, None>>
    ELSE IF LabelFileRaises(label_files[j]) THEN LabelLoop(label_files, j + 1)
    ELSE IF Cardinality(NonNoiseLabels(label_files[j])) > 0
         THEN <<PyInt(Cardinality(NonNoiseLabels(label_files[j]))),
                PyBool(0 \in unique_labels(label_files[j]))>>
         ELSE LabelLoop(label_files, j + 1)

max_levels == 10

\* 'dataset_generator-' in basename and 'dataset_name-' in basename
IsDatasetDir(name) == name.kind = "dataset"

\* the ascent from the score file's directory: the nearest of the first
\* max_levels directories that is a dataset directory, 0 when none
dataset_dir(dirs) ==
    LET hits == {i \in 1..Len(dirs) :
                    /\ Len(dirs) - i < max_levels
                    /\ IsDatasetDir(dirs[i].name)}
    IN IF hits = {} THEN 0 ELSE CHOOSE i \in hits : \A j \in hits : j <= i

extract_dataset_true_k_and_noise(dirs) ==
    IF dataset_dir(dirs) = 0 THEN <<None, None>>
    ELSE LabelLoop(dirs[dataset_dir(dirs)].label_files, 1)

----------------------------------------------------------------------------
(* Performance sidecar of the metric directory *)

\* perf.json beside the score file; absent or unparsable gives None
extract_metric_performance_data(dirs) ==
    LET p == dirs[Len(dirs)].perf
    IN [runtime |-> IF p.kind = "dict" THEN Get(p.d, "total_time_secs", None)
                    ELSE None]

----------------------------------------------------------------------------
(* Performance sidecars of the method directory.  clustbench_performance.txt *)
(* is a header line and a data line of cells between tabs, a cell being a   *)
(* text without blanks or the empty text.                                   *)

NoPerformance == [exists |-> FALSE, header |-> <<>>, data |-> <<>>]
Performance(header, data) == [exists |-> TRUE, header |-> header, data |-> data]

\* line.strip().split('\t'): the blanks stripped at both ends of the line
\* are the tabs around its leading and trailing empty cells
StripSplit(cells) ==
    LET filled == {i \in 1..Len(cells) : cells[i] # ""}
    IN IF filled = {} THEN <<>>
       ELSE SubSeq(cells, Min(filled), Max(filled))

\* float(data[s_index]) succeeds
TimeParses(tok) == tok \in {"1.5", "2.0"}

\* float(data[s_index]), in units of 1/1024
TimeOf(tok) == IF tok = "1.5" THEN PyFloat(1536) ELSE PyFloat(2048)

\* find_method_performance: the file of the directory three levels above
\* the one that holds the score file; the data cell at the index of s
find_method_performance(dirs) ==
    LET file == dirs[Len(dirs) - 3].performance
        header == StripSplit(file.header)
        data == StripSplit(file.data)
        at == {i \in 1..Len(header) : header[i] = "s"}
    IN IF ~file.exists \/ data = <<>> \/ at = {} THEN None
       ELSE IF Min(at) > Len(data) THEN None
       ELSE IF TimeParses(data[Min(at)]) THEN TimeOf(data[Min(at)])
       ELSE None

PerfKeys ==
    [runtime |-> "total_time_secs", threads |-> "max_threads",
     disk_read |-> "total_disk_read_bytes", disk_write |-> "total_disk_write_bytes",
     avg_load |-> "avg_cpu_usage", peak_rss |-> "peak_mem_rss_kb"]

\* the method directory of extract_performance_data: the nearest of the
\* 10 directories from the score file upward with method- in its name;
\* else the directory of the score file when method- is in the path; else
\* the directory three levels above it
PerfMethodDir(dirs) ==
    LET near == {i \in 1..Len(dirs) :
                    Len(dirs) - i < 10 /\ dirs[i].name.kind = "method"}
    IN IF near # {} THEN Max(near)
       ELSE IF \E i \in 1..Len(dirs) : dirs[i].name.kind = "method" THEN Len(dirs)
       ELSE Len(dirs) - 3

\* extract_performance_data: the six fields of perf.json, None for a key
\* that is missing; all None when the file is missing or cannot be read
extract_performance_data(dirs) ==
    LET p == dirs[PerfMethodDir(dirs)].perf
    IN [x \in DOMAIN PerfKeys |->
          IF p.kind = "dict" THEN Get(p.d, PerfKeys[x], None) ELSE None]

\* method_result: the meta fields, execution_time_seconds and, by
\* update(), the six fields of perf_data
MethodRecord(meta, execution_time, perf_data) ==
    [x \in (DOMAIN meta) \cup {"execution_time_seconds"} \cup (DOMAIN perf_data) |->
        IF x \in DOMAIN perf_data THEN perf_data[x]
        ELSE IF x = "execution_time_seconds" THEN execution_time
        ELSE meta[x]]

----------------------------------------------------------------------------
(* Score file parser *)

MetaRecord(source_dir, backend, timestamp, ident, gt) ==
    [x \in {"source_dir", "backend", "run_timestamp", "dataset_generator",
            "dataset_name", "true_k", "has_noise", "method", "seed"} |->
        CASE x = "source_dir" -> BaseName(source_dir)
          [] x = "backend" -> backend
          [] x = "run_timestamp" -> timestamp
          [] x = "dataset_generator" -> ident.dataset[1]
          [] x = "dataset_name" -> ident.dataset[2]
          [] x = "true_k" -> gt[1]
          [] x = "has_noise" -> gt[2]
          [] x = "method" -> ident.method
          [] OTHER -> ident.seed]

\* a metric_result literal that never sets empty_file
MetricBase_EmptyFalse(meta, metric, runtime, anomaly, empty) ==
    [x \in (DOMAIN meta) \cup {"metric", "score", "runtime",
            "duplicate_k_anomaly", "empty_file", "missing_true_k_score"} |->
        CASE x = "metric" -> metric
          [] x = "score" -> None
          [] x = "runtime" -> runtime
          [] x = "duplicate_k_anomaly" -> PyBool(anomaly)
          [] x = "empty_file" -> PyBool(FALSE)
          [] x = "missing_true_k_score" -> PyBool(FALSE)
          [] OTHER -> meta[x]]

\* the metric_result literal: the meta fields, score None and the flags
MetricBase(meta, metric, runtime, anomaly, empty) ==
    [x \in (DOMAIN meta) \cup {"metric", "score", "runtime",
            "duplicate_k_anomaly", "empty_file", "missing_true_k_score"} |->
        CASE x = "metric" -> metric
          [] x = "score" -> None
          [] x = "runtime" -> runtime
          [] x = "duplicate_k_anomaly" -> PyBool(anomaly)
          [] x = "empty_file" -> PyBool(empty)
          [] x = "missing_true_k_score" -> PyBool(FALSE)
          [] OTHER -> meta[x]]

\* a reader for which blank content raises as unreadable content does
ContentCase_BlankRaises(content) ==
    CASE content.kind = "unreadable" -> "raise"
      [] content.kind = "blank" -> "raise"
      [] Len(content.rows) = 0 -> "empty"
      [] OTHER -> "table"

\* a reader for which unreadable content is empty content
ContentCase_UnreadableIsEmpty(content) ==
    CASE content.kind = "unreadable" -> "empty"
      [] content.kind = "blank" -> "empty"
      [] Len(content.rows) = 0 -> "empty"
      [] OTHER -> "table"

\* what reading the content does: gzip.open(...).read() raises, the text
\* is blank, the table has a header and no data row, or it has a data row
ContentCase(content) ==
    CASE content.kind = "unreadable" -> "raise"
      [] content.kind = "blank" -> "empty"
      [] Len(content.rows) = 0 -> "empty"
      [] OTHER -> "table"

\* process_scores_file: its locals at return.  method_result and
\* metric_result are None when the except clause returned (None, None).
process_scores_file(file, dirs, backend, timestamp, source_dir) ==
    LET minfo == extract_method_info(dirs)
        ident == [dataset |-> extract_dataset_info(dirs),
                  method |-> minfo.method,
                  seed |-> minfo.seed]
        metric == extract_metric_info(dirs)
        gt == extract_dataset_true_k_and_noise(dirs)
        runtime == extract_metric_performance_data(dirs).runtime
        meta == MetaRecord(source_dir, backend, timestamp, ident, gt)
        what == ContentCase(file.content)
        header == file.content.header
        data == file.content.rows[1]
        scan == ScanDuplicates(header, data, 1,
                    [k_values |-> EmptyDict, duplicate_k_anomaly |-> FALSE])
        base == MetricBase(meta, metric, runtime, scan.duplicate_k_anomaly, FALSE)
    IN [file |-> file,
        true_k |-> gt[1],
        has_noise |-> gt[2],
        raised |-> what = "raise",
        k_values |-> IF what = "table" THEN scan.k_values ELSE EmptyDict,
        duplicate_k_anomaly |-> what = "table" /\ scan.duplicate_k_anomaly,
        method_result |->
            IF what = "raise" THEN None
            ELSE [t |-> "dict",
                  v |-> MethodRecord(meta, find_method_performance(dirs),
                                     extract_performance_data(dirs))],
        metric_result |->
            CASE what = "raise" -> None
              [] what = "empty" ->
                   [t |-> "dict", v |-> MetricBase(meta, metric, runtime, FALSE, TRUE)]
              [] OTHER ->
                   [t |-> "dict",
                    v |-> SelectScore(AddColumns(header, data, 1, base), gt[1])]]

----------------------------------------------------------------------------
(* process_run and main *)

\* item.startswith('out_') or item.startswith('out-')
IsRunDirName(name) == name.kind = "run"

\* the run directories process_run finds for a root: the root itself, or
\* its subdirectories with a run-directory name, in listdir order
RECURSIVE SelectRunDirs(_, _)
SelectRunDirs(root, i) ==
    IF i > Len(root.children) THEN <<>>
    ELSE IF IsRunDirName(root.children[i].dir.name)
         THEN <<[dirs |-> <<root.dir, root.children[i].dir>>,
                 files |-> root.children[i].files]>>
              \o SelectRunDirs(root, i + 1)
         ELSE SelectRunDirs(root, i + 1)

RunDirsOf(root) ==
    IF IsRunDirName(root.dir.name)
    THEN <<[dirs |-> <<root.dir>>, files |-> root.files]>>
    ELSE SelectRunDirs(root, 1)

\* glob.glob(run_dir/**/clustbench.scores.gz): the score files with their
\* full paths
Glob(rd) == [i \in 1..Len(rd.files) |->
                [dirs |-> rd.dirs \o rd.files[i].subdirs,
                 content |-> rd.files[i].content]]

\* list(found)[0] if len(found) == 1 else None
SingleOrNone(found) == IF Cardinality(found) = 1 THEN CHOOSE x \in found : TRUE ELSE None

AppendIfNew(seq, x) ==
    IF Truthy(x) /\ \A i \in 1..Len(seq) : seq[i] # x THEN Append(seq, x) ELSE seq

\* the body of main's loop after process_run returned
Merge(ms, method_results, metric_results, backend, timestamp, anomaly_files, dir_name) ==
    [ms EXCEPT !.all_method_results = @ \o method_results,
               !.all_metric_results = @ \o metric_results,
               !.all_backends = AppendIfNew(@, backend),
               !.all_timestamps = AppendIfNew(@, timestamp),
               !.all_duplicate_k_anomaly_files = @ \o anomaly_files,
               !.source_dirs = Append(@, dir_name)]

\* the deduplication key of a method result
Key_NoSeed(result) ==
    <<result["source_dir"], result["backend"], result["run_timestamp"],
      result["dataset_generator"], result["dataset_name"], result["method"]>>

Key(result) ==
    <<result["source_dir"], result["backend"], result["run_timestamp"],
      result["dataset_generator"], result["dataset_name"], result["method"],
      result["seed"]>>

\* a deduplication in which a later result replaces the one kept
RECURSIVE Deduplicate_LastWins(_, _, _)
Deduplicate_LastWins(results, i, kept) ==
    IF i > Len(results) THEN kept
    ELSE IF \E j \in 1..Len(kept) : Key(kept[j]) = Key(results[i])
         THEN Deduplicate_LastWins(results, i + 1,
                [j \in 1..Len(kept) |->
                    IF Key(kept[j]) = Key(results[i]) THEN results[i] ELSE kept[j]])
         ELSE Deduplicate_LastWins(results, i + 1, Append(kept, results[i]))

\* method_df_data.values(): the first result of every key, in order
RECURSIVE Deduplicate(_, _, _)
Deduplicate(results, i, kept) ==
    IF i > Len(results) THEN kept
    ELSE IF \E j \in 1..Len(kept) : Key(kept[j]) = Key(results[i])
         THEN Deduplicate(results, i + 1, kept)
         ELSE Deduplicate(results, i + 1, Append(kept, results[i]))

NoCall == [file |-> None, true_k |-> None, has_noise |-> None, raised |-> FALSE,
           k_values |-> EmptyDict, duplicate_k_anomaly |-> FALSE,
           method_result |-> None, metric_result |-> None]

EmptyMain == [all_method_results |-> <<>>, all_metric_results |-> <<>>,
              all_backends |-> <<>>, all_timestamps |-> <<>>,
              all_duplicate_k_anomaly_files |-> <<>>, source_dirs |-> <<>>,
              method_df_data |-> <<>>]

\* --cores 1: no pool
NoPool == [cores |-> 1, status |-> <<>>, results |-> <<>>, finished |-> <<>>]

\* main calls process_run for the next root; a root without run directories
\* returns at once
StartRun ==
    /\ pc = "main"
    /\ ri < Len(root_dirs)
    /\ LET root == root_dirs[ri + 1]
       IN IF RunDirsOf(root) = <<>>
          THEN /\ main_state' = Merge(main_state, <<>>, <<>>, None, None, <<>>,
                                      BaseName(root.dir.name))
               /\ ri' = ri + 1
               /\ pc' = "main"
               /\ run_dirs' = <<>>
          ELSE /\ run_dirs' = RunDirsOf(root)
               /\ pc' = "run"
               /\ UNCHANGED <<main_state, ri>>
    /\ all_method_results' = <<>>
    /\ all_metric_results' = <<>>
    /\ all_duplicate_k_anomaly_files' = <<>>
    /\ backends_found' = {}
    /\ timestamps_found' = {}
    /\ score_files' = <<>>
    /\ UNCHANGED <<root_dirs, run_dir, call, pool>>

\* process_run takes the next run directory, reads backend and timestamp
\* off its name and enumerates its score files
NextRunDir ==
    /\ pc = "run"
    /\ score_files = <<>>
    /\ run_dirs # <<>>
    /\ LET rd == Head(run_dirs)
           bt == extract_backend_timestamp(rd.dirs[Len(rd.dirs)].name)
       IN /\ run_dir' = [dirs |-> rd.dirs, backend |-> bt[1], timestamp |-> bt[2]]
          /\ backends_found' = IF Truthy(bt[1]) THEN backends_found \cup {bt[1]}
                               ELSE backends_found
          /\ timestamps_found' = IF Truthy(bt[2]) THEN timestamps_found \cup {bt[2]}
                                 ELSE timestamps_found
          /\ score_files' = Glob(rd)
    /\ run_dirs' = Tail(run_dirs)
    /\ UNCHANGED <<root_dirs, pc, ri, all_method_results, all_metric_results,
                   all_duplicate_k_anomaly_files, main_state, call, pool>>

\* a loop over score_files that a failing file ends
ProcessScoreFile_StopsAtFailure ==
    /\ pc = "run"
    /\ score_files # <<>>
    /\ LET file == Head(score_files)
           res == process_scores_file(file, file.dirs, run_dir.backend,
                      run_dir.timestamp, run_dir.dirs[Len(run_dir.dirs)].name)
       IN /\ call' = res
          /\ all_method_results' =
                IF res.method_result # None
                THEN Append(all_method_results, res.method_result.v)
                ELSE all_method_results
          /\ all_metric_results' =
                IF res.metric_result # None
                THEN Append(all_metric_results, res.metric_result.v)
                ELSE all_metric_results
          /\ all_duplicate_k_anomaly_files' =
                IF /\ res.metric_result # None
                   /\ Truthy(res.metric_result.v["duplicate_k_anomaly"])
                THEN Append(all_duplicate_k_anomaly_files, file)
                ELSE all_duplicate_k_anomaly_files
          /\ score_files' = IF res.raised THEN <<>> ELSE Tail(score_files)
    /\ UNCHANGED <<root_dirs, pc, ri, run_dirs, run_dir, backends_found,
                   timestamps_found, main_state, pool>>

\* one iteration of the loop over score_files
ProcessScoreFile ==
    /\ pc = "run"
    /\ score_files # <<>>
    /\ LET file == Head(score_files)
           res == process_scores_file(file, file.dirs, run_dir.backend,
                      run_dir.timestamp, run_dir.dirs[Len(run_dir.dirs)].name)
       IN /\ call' = res
          /\ all_method_results' =
                IF res.method_result # None
                THEN Append(all_method_results, res.method_result.v)
                ELSE all_method_results
          /\ all_metric_results' =
                IF res.metric_result # None
                THEN Append(all_metric_results, res.metric_result.v)
                ELSE all_metric_results
          /\ all_duplicate_k_anomaly_files' =
                IF /\ res.metric_result # None
                   /\ Truthy(res.metric_result.v["duplicate_k_anomaly"])
                THEN Append(all_duplicate_k_anomaly_files, file)
                ELSE all_duplicate_k_anomaly_files
    /\ score_files' = Tail(score_files)
    /\ UNCHANGED <<root_dirs, pc, ri, run_dirs, run_dir, backends_found,
                   timestamps_found, main_state, pool>>

\* process_run returns and main merges what it returned
ReturnRun ==
    /\ pc = "run"
    /\ score_files = <<>>
    /\ run_dirs = <<>>
    /\ main_state' = Merge(main_state, all_method_results, all_metric_results,
                           SingleOrNone(backends_found),
                           SingleOrNone(timestamps_found),
                           all_duplicate_k_anomaly_files,
                           BaseName(root_dirs[ri + 1].dir.name))
    /\ ri' = ri + 1
    /\ pc' = "main"
    /\ UNCHANGED <<root_dirs, run_dirs, run_dir, score_files, all_method_results,
                   all_metric_results, all_duplicate_k_anomaly_files,
                   backends_found, timestamps_found, call, pool>>

\* main removes the duplicate method results
Dedup ==
    /\ pc = "main"
    /\ ri = Len(root_dirs)
    /\ main_state' = [main_state EXCEPT !.method_df_data =
                         Deduplicate(main_state.all_method_results, 1, <<>>)]
    /\ pc' = "done"
    /\ UNCHANGED <<root_dirs, ri, run_dirs, run_dir, score_files,
                   all_method_results, all_metric_results,
                   all_duplicate_k_anomaly_files, backends_found,
                   timestamps_found, call, pool>>

Next == StartRun \/ NextRunDir \/ ProcessScoreFile \/ ReturnRun \/ Dedup

----------------------------------------------------------------------------
(* main with a worker pool: pool.map(process_dir, root_dirs).  A worker is *)
(* a process of its own; it runs process_run on one root at a time and     *)
(* returns the result tuple.                                               *)

NoResults == [method_results |-> <<>>, metric_results |-> <<>>,
              duplicate_k_anomaly_files |-> <<>>,
              backends_found |-> {}, timestamps_found |-> {}]

\* process_run: the loop over score_files of one run directory, from file i
RECURSIVE ScoreFilesLoop(_, _, _, _, _)
ScoreFilesLoop(files, i, bt, rd, acc) ==
    IF i > Len(files) THEN acc
    ELSE LET res == process_scores_file(files[i], files[i].dirs, bt[1], bt[2],
                                        rd.dirs[Len(rd.dirs)].name)
         IN ScoreFilesLoop(files, i + 1, bt, rd,
               [acc EXCEPT
                  !.method_results =
                      IF res.method_result # None
                      THEN Append(@, res.method_result.v) ELSE @,
                  !.metric_results =
                      IF res.metric_result # None
                      THEN Append(@, res.metric_result.v) ELSE @,
                  !.duplicate_k_anomaly_files =
                      IF /\ res.metric_result # None
                         /\ Truthy(res.metric_result.v["duplicate_k_anomaly"])
                      THEN Append(@, files[i]) ELSE @])

\* process_run: the loop over run_dirs, from run directory i
RECURSIVE RunDirsLoop(_, _, _)
RunDirsLoop(rds, i, acc) ==
    IF i > Len(rds) THEN acc
    ELSE LET rd == rds[i]
             bt == extract_backend_timestamp(rd.dirs[Len(rd.dirs)].name)
             found == [acc EXCEPT
                         !.backends_found =
                             IF Truthy(bt[1]) THEN @ \cup {bt[1]} ELSE @,
                         !.timestamps_found =
                             IF Truthy(bt[2]) THEN @ \cup {bt[2]} ELSE @]
         IN RunDirsLoop(rds, i + 1, ScoreFilesLoop(Glob(rd), 1, bt, rd, found))

\* process_run from call to return: the result tuple
process_run(root) ==
    LET acc == RunDirsLoop(RunDirsOf(root), 1, NoResults)
    IN [method_results |-> acc.method_results,
        metric_results |-> acc.metric_results,
        backend |-> SingleOrNone(acc.backends_found),
        timestamp |-> SingleOrNone(acc.timestamps_found),
        duplicate_k_anomaly_files |-> acc.duplicate_k_anomaly_files,
        dir_name |-> BaseName(root.dir.name)]

\* the worker function
process_dir(base_dir) == process_run(base_dir)

\* results gathered in the order in which the workers finished
MapResults_CompletionOrder(p) ==
    [i \in 1..Len(p.finished) |-> p.results[p.finished[i]]]

\* what pool.map returns: the results in the order of root_dirs
MapResults(p) == p.results

\* the loop over process_results, from result i
RECURSIVE MergeResults(_, _, _)
MergeResults(process_results, i, ms) ==
    IF i > Len(process_results) THEN ms
    ELSE LET r == process_results[i]
         IN MergeResults(process_results, i + 1,
               Merge(ms, r.method_results, r.metric_results, r.backend,
                     r.timestamp, r.duplicate_k_anomaly_files, r.dir_name))

Queued == [state |-> "queued", worker |-> 0]
Running(w) == [state |-> "running", worker |-> w]
Done == [state |-> "done", worker |-> 0]

\* if args.cores > 1 and len(args.root_dirs) > 1: the pool is created and
\* pool.map queues one task per root; else the sequential loop runs
Dispatch ==
    /\ pc = "start"
    /\ IF pool.cores > 1 /\ Len(root_dirs) > 1
       THEN /\ pc' = "pool"
            /\ pool' = [pool EXCEPT
                           !.status = [t \in 1..Len(root_dirs) |-> Queued],
                           !.results = [t \in 1..Len(root_dirs) |-> None]]
       ELSE /\ pc' = "main"
            /\ UNCHANGED pool
    /\ UNCHANGED <<root_dirs, ri, run_dirs, run_dir, score_files,
                   all_method_results, all_metric_results,
                   all_duplicate_k_anomaly_files, backends_found,
                   timestamps_found, main_state, call>>

\* an idle worker takes the next task of the queue
TakeTask(w) ==
    /\ pc = "pool"
    /\ w <= pool.cores
    /\ \A t \in 1..Len(pool.status) : pool.status[t] # Running(w)
    /\ \E t \in 1..Len(pool.status) :
          /\ pool.status[t] = Queued
          /\ \A u \in 1..(t - 1) : pool.status[u] # Queued
          /\ pool' = [pool EXCEPT !.status[t] = Running(w)]
    /\ UNCHANGED <<root_dirs, pc, ri, run_dirs, run_dir, score_files,
                   all_method_results, all_metric_results,
                   all_duplicate_k_anomaly_files, backends_found,
                   timestamps_found, main_state, call>>

\* a worker returns the result tuple of its task
FinishTask(w) ==
    /\ pc = "pool"
    /\ \E t \in 1..Len(pool.status) :
          /\ pool.status[t] = Running(w)
          /\ pool' = [pool EXCEPT !.status[t] = Done,
                                  !.results[t] = process_dir(root_dirs[t]),
                                  !.finished = Append(@, t)]
    /\ UNCHANGED <<root_dirs, pc, ri, run_dirs, run_dir, score_files,
                   all_method_results, all_metric_results,
                   all_duplicate_k_anomaly_files, backends_found,
                   timestamps_found, main_state, call>>

\* pool.map returned: main merges the result tuples
MergePool ==
    /\ pc = "pool"
    /\ \A t \in 1..Len(pool.status) : pool.status[t].state = "done"
    /\ main_state' = MergeResults(MapResults(pool), 1, main_state)
    /\ ri' = Len(root_dirs)
    /\ pc' = "main"
    /\ UNCHANGED <<root_dirs, run_dirs, run_dir, score_files,
                   all_method_results, all_metric_results,
                   all_duplicate_k_anomaly_files, backends_found,
                   timestamps_found, call, pool>>

MaxCores == 2

NextPool ==
    \/ Dispatch
    \/ \E w \in 1..MaxCores : TakeTask(w)
    \/ \E w \in 1..MaxCores : FinishTask(w)
    \/ MergePool
    \/ StartRun
    \/ NextRunDir
    \/ ProcessScoreFile
    \/ ReturnRun
    \/ Dedup

----------------------------------------------------------------------------
(* The trees the aggregation is run on *)

MaxFiles == 3
MaxCols == 3
MaxLabelLines == 3
MaxPadding == 5

SeqsUpTo(S, n) == UNION {[1..k -> S] : k \in 0..n}

Dir(name) == [name |-> name, params |-> NoParams, perf |-> NoParams,
              performance |-> NoPerformance, label_files |-> <<>>]

LabelFile(lines) == [readable |-> TRUE, lines |-> lines]
CorruptLabelFile == [readable |-> FALSE, lines |-> <<>>]

Unreadable == [kind |-> "unreadable", header |-> <<>>, rows |-> <<>>]
Blank == [kind |-> "blank", header |-> <<>>, rows |-> <<>>]
Table(header, rows) == [kind |-> "table", header |-> header, rows |-> rows]

Cell(text) == [quoted |-> FALSE, text |-> text]
QuotedCell(text) == [quoted |-> TRUE, text |-> text]

\* <run>/dataset_generator-fcps_dataset_name-atom/clustering/<method>/
\*       metrics/partition_metrics/metric-<metric>/clustbench.scores.gz
ScorePath(label_files, method_dir, metric) ==
    <<[Dir(DatasetDir("fcps", "atom")) EXCEPT !.label_files = label_files],
      Dir(PlainDir("clustering")),
      Dir(method_dir),
      Dir(PlainDir("metrics")),
      Dir(PlainDir("partition_metrics")),
      Dir(MetricDir(metric))>>

\* the same path with the label files in a directory named as a dataset or
\* not, and pad more directories between it and the method directory
PaddedPath(label_files, named, pad) ==
    <<[Dir(IF named THEN DatasetDir("fcps", "atom") ELSE PlainDir("atom"))
          EXCEPT !.label_files = label_files]>>
    \o [i \in 1..pad |-> Dir(PlainDir("sub"))]
    \o SubSeq(ScorePath(<<>>, MethodDir("kmeans", "1"), "ari"), 2, 6)

ScoreFile(subdirs, content) == [subdirs |-> subdirs, content |-> content]

TwoClusters == <<LabelFile(<<"1", "2", "1">>)>>
ThreeClusters == <<LabelFile(<<"1", "2", "3">>)>>

NormalTable == Table(<<Cell("k=2"), Cell("k=3")>>, <<<<"0.5", "0.501953125">>>>)
DuplicateTable == Table(<<Cell("k=2"), Cell("k=2")>>, <<<<"0.5", "0.501953125">>>>)

\* the score files of the run-level trees: one method run under three
\* metric directories, and the same method without a seed
RunFiles ==
    {ScoreFile(ScorePath(TwoClusters, MethodDir("kmeans", "1"), "ari"), c) :
        c \in {NormalTable, DuplicateTable, Unreadable}}
    \cup {ScoreFile(ScorePath(TwoClusters, MethodDir("kmeans", "1"), "nmi"), c) :
        c \in {NormalTable, Blank}}
    \cup {ScoreFile(ScorePath(TwoClusters, MethodDir("kmeans", "1"), "fm"), c) :
        c \in {NormalTable}}
    \cup {ScoreFile(ScorePath(TwoClusters, MethodDir("kmeans", ""), "ari"), c) :
        c \in {NormalTable}}

\* a directory holds one clustbench.scores.gz: the files of a run directory
\* have different paths
FileLists ==
    {L \in SeqsUpTo(RunFiles, MaxFiles) :
        \A i, j \in 1..Len(L) : i # j => L[i].subdirs # L[j].subdirs}

\* the pairs of file lists of two run directories, MaxFiles files in all
FileListPairs ==
    {P \in FileLists \X FileLists : Len(P[1]) + Len(P[2]) <= MaxFiles}

RunRoot(name, files) == [dir |-> Dir(name), files |-> files, children |-> <<>>]
ParentRoot(name, children) == [dir |-> Dir(name), files |-> <<>>, children |-> children]
Child(name, files) == [dir |-> Dir(name), files |-> files]

\* one run directory; two run directories given as two roots; a parent
\* directory holding two run directories and another directory, given
\* after a directory that holds no run directory
Trees ==
    {<<RunRoot(RunDir("_-", "conda", "1"), L)>> : L \in FileLists}
    \cup {<<RunRoot(RunDir("_-", "conda", "1"), P[1]),
            RunRoot(RunDir("-_", "slurm", "2"), P[2])>> : P \in FileListPairs}
    \cup {<<ParentRoot(PlainDir("empty"), <<Child(PlainDir("notes"), <<>>)>>),
            ParentRoot(PlainDir("results"),
                <<Child(RunDir("_-", "conda", "1"), P[1]),
                  Child(PlainDir("notes"), <<>>),
                  Child(RunDir("_", "tmp", ""), P[2])>>)>> : P \in FileListPairs}

Init ==
    /\ root_dirs \in Trees
    /\ pc = "main"
    /\ ri = 0
    /\ run_dirs = <<>>
    /\ run_dir = [dirs |-> <<>>, backend |-> None, timestamp |-> None]
    /\ score_files = <<>>
    /\ all_method_results = <<>>
    /\ all_metric_results = <<>>
    /\ all_duplicate_k_anomaly_files = <<>>
    /\ backends_found = {}
    /\ timestamps_found = {}
    /\ main_state = EmptyMain
    /\ call = NoCall
    /\ pool = NoPool

Spec == Init /\ [][Next]_vars

----------------------------------------------------------------------------
(* process_run on run directories of every name *)

\* the two separators of a run-directory name
Separators == {"_-", "-_", "__", "--"}

\* out<sep><backend><sep><digits>, with a backend or none and with digits
\* or none; out_tmp; and a name that does not start with out_ or out-
DirNames ==
    {RunDir(seps, backend, timestamp) :
        seps \in Separators, backend \in {"conda", "slurm", ""},
        timestamp \in {"1", "202506231301", ""}}
    \cup {RunDir("_", "tmp", ""), PlainDir("notes")}

OneFile(metric) ==
    <<ScoreFile(ScorePath(TwoClusters, MethodDir("kmeans", "1"), metric), NormalTable)>>

\* a score file of the same dataset directory, so deep below it that the
\* dataset directory is more than max_levels above the score file
DeepFile == <<ScoreFile(PaddedPath(TwoClusters, TRUE, MaxPadding), NormalTable)>>

\* a root that is a directory of any name and holds a score file at the
\* usual depth and a deep one, or the parent of two directories of
\* different names
NamedRoots ==
    {RunRoot(n, OneFile("ari") \o DeepFile) : n \in DirNames}
    \cup UNION {{ParentRoot(PlainDir("results"),
                            <<Child(n1, OneFile("ari")), Child(n2, OneFile("nmi"))>>) :
                    n2 \in DirNames \ {n1}} : n1 \in DirNames}

InitRuns ==
    /\ \E root \in NamedRoots : root_dirs = <<root>>
    /\ pc = "main"
    /\ ri = 0
    /\ run_dirs = <<>>
    /\ run_dir = [dirs |-> <<>>, backend |-> None, timestamp |-> None]
    /\ score_files = <<>>
    /\ all_method_results = <<>>
    /\ all_metric_results = <<>>
    /\ all_duplicate_k_anomaly_files = <<>>
    /\ backends_found = {}
    /\ timestamps_found = {}
    /\ main_state = EmptyMain
    /\ call = NoCall
    /\ pool = NoPool

SpecRuns == InitRuns /\ [][Next]_vars

----------------------------------------------------------------------------
(* main given several roots and --cores *)

MaxRoots == 3

\* a path whose directories all hold a parameters.json and a perf.json
\* that are not JSON
CorruptSidecars(subdirs) ==
    [i \in 1..Len(subdirs) |->
        [subdirs[i] EXCEPT !.params = BadParams, !.perf = BadParams]]

\* roots whose result tuples differ: a run directory with an unreadable
\* score file and with corrupt sidecars, a parent of three run directories
\* of which one has the name of the first root and another dataset, and a
\* directory that holds no run directory
PoolRoots ==
    {RunRoot(RunDir("_-", "conda", "1"),
        <<ScoreFile(ScorePath(TwoClusters, MethodDir("kmeans", "1"), "ari"), Blank),
          ScoreFile(ScorePath(TwoClusters, MethodDir("kmeans", "1"), "nmi"), Unreadable),
          ScoreFile(CorruptSidecars(ScorePath(TwoClusters, MethodDir("kmeans", "1"), "fm")),
                    NormalTable)>>),
     ParentRoot(PlainDir("results"),
        <<Child(RunDir("_-", "conda", "1"),
            <<ScoreFile(ScorePath(ThreeClusters, MethodDir("kmeans", "1"), "ari"), NormalTable)>>),
          Child(RunDir("-_", "slurm", "2"),
            <<ScoreFile(ScorePath(TwoClusters, MethodDir("kmeans", ""), "ari"), DuplicateTable)>>),
          Child(RunDir("_", "tmp", ""),
            <<ScoreFile(ScorePath(TwoClusters, MethodDir("kmeans", "1"), "fm"), Unreadable)>>)>>),
     ParentRoot(PlainDir("empty"), <<Child(PlainDir("notes"), <<>>)>>)}

InitPool ==
    /\ \E n \in 1..MaxRoots : root_dirs \in [1..n -> PoolRoots]
    /\ pc = "start"
    /\ ri = 0
    /\ run_dirs = <<>>
    /\ run_dir = [dirs |-> <<>>, backend |-> None, timestamp |-> None]
    /\ score_files = <<>>
    /\ all_method_results = <<>>
    /\ all_metric_results = <<>>
    /\ all_duplicate_k_anomaly_files = <<>>
    /\ backends_found = {}
    /\ timestamps_found = {}
    /\ main_state = EmptyMain
    /\ call = NoCall
    /\ \E cores \in 1..MaxCores : pool = [NoPool EXCEPT !.cores = cores]

SpecPool == InitPool /\ [][NextPool]_vars

----------------------------------------------------------------------------
(* process_run at the head of its loop over score_files, in a run          *)
(* directory out_conda-1 that holds one score file                         *)

AtLoopHead(file) ==
    LET root == RunRoot(RunDir("_-", "conda", "1"), <<file>>)
        rd == RunDirsOf(root)[1]
    IN /\ root_dirs = <<root>>
       /\ pc = "run"
       /\ ri = 0
       /\ run_dirs = <<>>
       /\ run_dir = [dirs |-> rd.dirs,
                     backend |-> extract_backend_timestamp(root.dir.name)[1],
                     timestamp |-> extract_backend_timestamp(root.dir.name)[2]]
       /\ score_files = Glob(rd)
       /\ all_method_results = <<>>
       /\ all_metric_results = <<>>
       /\ all_duplicate_k_anomaly_files = <<>>
       /\ backends_found = {extract_backend_timestamp(root.dir.name)[1]}
       /\ timestamps_found = {extract_backend_timestamp(root.dir.name)[2]}
       /\ main_state = EmptyMain
       /\ call = NoCall
       /\ pool = NoPool

\* the score tables: up to MaxCols header cells, among them a quoted
\* duplicate of k=2 and a column named like a flag of the record; no data
\* row, or one data row with a value for every column or for all but the
\* last
HeaderCells == {Cell("k=2"), QuotedCell("k=2"), Cell("k=3"), Cell("empty_file")}
DataCells == {"0.5", "0.5009765625", "0.501953125", "abc"}

DataRows(n) == [1..n -> DataCells] \cup (IF n > 0 THEN [1..(n - 1) -> DataCells] ELSE {})

\* the tables with a given header
TablesOf(h) == {Table(h, <<>>)} \cup {Table(h, <<d>>) : d \in DataRows(Len(h))}

\* the score file of the run directory, of a dataset with or without labels
OneScoreFile(content, label_files) ==
    AtLoopHead(ScoreFile(ScorePath(label_files, MethodDir("kmeans", "1"), "ari"),
                         content))

\* tables with a column named like an identity field of the record
FieldColumnTables ==
    {Table(<<Cell(c), Cell("k=2")>>, <<<<d, "0.501953125">>>>) :
        c \in {"method", "true_k"}, d \in {"0.5", "abc"}}

InitScores ==
    \E label_files \in {<<>>, TwoClusters} :
        \/ \E content \in {Unreadable, Blank} : OneScoreFile(content, label_files)
        \/ \E content \in FieldColumnTables : OneScoreFile(content, label_files)
        \/ \E h \in SeqsUpTo(HeaderCells, MaxCols) :
              \E content \in TablesOf(h) : OneScoreFile(content, label_files)

SpecScores == InitScores /\ [][ProcessScoreFile]_vars

\* the label files of the dataset directory: a first file of up to
\* MaxLabelLines lines, alone or followed by a second file
LabelLines == {"0", "1", "1.0", "2", "2.5", "x", ""}

FirstLabelFiles ==
    {CorruptLabelFile} \cup {LabelFile(l) : l \in SeqsUpTo(LabelLines, MaxLabelLines)}

SecondLabelFiles ==
    {LabelFile(<<"3", "2", "1", "0">>), LabelFile(<<"1.0", "1">>), LabelFile(<<"0", "x">>)}

\* label files for the paths of different depth: none, two clusters, noise
\* only, unreadable
FewLabelFiles ==
    {<<>>, TwoClusters, <<LabelFile(<<"0", "0">>)>>, <<CorruptLabelFile>>}

InitLabels ==
    \/ OneScoreFile(NormalTable, <<>>)
    \/ \E label_files \in FewLabelFiles, named \in BOOLEAN, pad \in 0..MaxPadding :
          AtLoopHead(ScoreFile(PaddedPath(label_files, named, pad), NormalTable))
    \/ \E f \in FirstLabelFiles :
          \/ OneScoreFile(NormalTable, <<f>>)
          \/ \E g \in SecondLabelFiles : OneScoreFile(NormalTable, <<f, g>>)

SpecLabels == InitLabels /\ [][ProcessScoreFile]_vars

\* the paths of the identity resolver:
\*   <run>/<dataset>/<parent>/<x>/sub.../metrics/partition_metrics/<metric>
\* with a parameters.json in <parent>, <x> and <metric>
MaxExtraLevels == 2

WithParams(name, params) == [Dir(name) EXCEPT !.params = params]

IdentityPath(dataset, parent, x, pad, metric) ==
    <<dataset, parent, x>>
    \o [i \in 1..pad |-> Dir(PlainDir("sub"))]
    \o <<Dir(PlainDir("metrics")), Dir(PlainDir("partition_metrics")), metric>>

MethodDirNames ==
    {MethodDir("kmeans", "123"), MethodDir("kmeans", ""),
     MethodDir("k-means", "01"), MethodDir("k-means", ""),
     LinkageDir("ward", ""), LinkageDir("average", "2"),
     PlainDir("kmeans")}

ParentDirNames ==
    {PlainDir("clustering"), PlainDir("agglomerative"), PlainDir("sklearn")}

DbscanWithSeed == Params(("method" :> PyStr("dbscan")) @@ ("seed" :> PyInt(456)))

\* parameters.json of the method directory
MethodSidecars ==
    {NoParams, BadParams, Params(EmptyDict), DbscanWithSeed,
     Params("method" :> PyStr("dbscan")),
     Params(("method" :> PyStr("k-means")) @@ ("seed" :> PyStr("01"))),
     Params(("method" :> PyStr("dbscan")) @@ ("seed" :> PyStr("abc"))),
     Params(("method" :> PyStr("dbscan")) @@ ("seed" :> None)),
     Params(("method" :> PyStr("")) @@ ("seed" :> PyInt(7))),
     Params("seed" :> PyInt(7)),
     Params(("method" :> PyInt(5)) @@ ("seed" :> PyInt(7)))}

\* parameters.json beside the score file
MetricSidecars ==
    {NoParams, BadParams, Params("metric" :> PyStr("")),
     Params(("method" :> PyStr("hdbscan")) @@ ("metric" :> PyStr("nmi"))
            @@ ("dataset_generator" :> PyStr("gen"))
            @@ ("dataset_name" :> PyStr("blobs")))}

InitIdentity ==
    \E dataset \in {DatasetDir("fcps", "atom"), PlainDir("atom")},
       parent \in ParentDirNames,
       parent_params \in {NoParams, DbscanWithSeed},
       x \in MethodDirNames,
       x_params \in MethodSidecars,
       pad \in 0..MaxExtraLevels,
       metric \in {MetricDir("ari"), PlainDir("ari")},
       metric_params \in MetricSidecars :
        AtLoopHead(ScoreFile(IdentityPath(Dir(dataset),
                                          WithParams(parent, parent_params),
                                          WithParams(x, x_params), pad,
                                          WithParams(metric, metric_params)),
                             NormalTable))

SpecIdentity == InitIdentity /\ [][ProcessScoreFile]_vars

----------------------------------------------------------------------------
(* process_scores_file on method directories with performance sidecars *)

MaxCells == 3

HeaderLines == {<<>>, <<"s", "h">>, <<"h", "s">>, <<"h", "s", "m">>, <<"h", "m">>}
DataLineCells == {"1.5", "2.0", "abc", ""}

FullPerf ==
    Params([x \in {"total_time_secs", "max_threads", "total_disk_read_bytes",
                   "total_disk_write_bytes", "avg_cpu_usage", "peak_mem_rss_kb"} |->
               IF x = "total_time_secs" THEN PyFloat(2560) ELSE PyInt(4)])

PerfFiles ==
    {NoParams, BadParams, Params(EmptyDict), FullPerf,
     Params("total_time_secs" :> PyFloat(2560)),
     Params(("max_threads" :> PyInt(4)) @@ ("peak_mem_rss_kb" :> PyInt(9)))}

SecondsFile == Performance(<<"s", "h">>, <<"1.5", "abc">>)

\* a method directory with its two sidecars
WithSidecars(name, performance, perf) ==
    [Dir(name) EXCEPT !.performance = performance, !.perf = perf]

\* the score file pad levels deeper than usual below a method directory,
\* named method-<m> or linkage-<l> under a library, that holds the sidecars
PerfScoreFile(parent, x, pad) ==
    ScoreFile(IdentityPath(Dir(DatasetDir("fcps", "atom")), Dir(parent), x, pad,
                           Dir(MetricDir("ari"))), NormalTable)

InitPerf ==
    \/ \E header \in HeaderLines, data \in SeqsUpTo(DataLineCells, MaxCells),
          perf \in {NoParams, FullPerf} :
          AtLoopHead(PerfScoreFile(PlainDir("clustering"),
              WithSidecars(MethodDir("kmeans", "1"), Performance(header, data), perf), 0))
    \/ \E performance \in {NoPerformance, SecondsFile}, perf \in PerfFiles,
          pad \in 0..(MaxPadding + 2) :
          \/ AtLoopHead(PerfScoreFile(PlainDir("clustering"),
                 WithSidecars(MethodDir("kmeans", "1"), performance, perf), pad))
          \/ AtLoopHead(PerfScoreFile(PlainDir("sklearn"),
                 WithSidecars(LinkageDir("ward", ""), performance, perf), pad))

SpecPerf == InitPerf /\ [][ProcessScoreFile]_vars

----------------------------------------------------------------------------
(* Properties of process_scores_file, read off the locals of the latest    *)
(* call and the file it parsed                                             *)

\* the latest call parsed a file with a header row and a data row
ParsedTable ==
    /\ call.file # None
    /\ call.file.content.kind = "table"
    /\ Len(call.file.content.rows) > 0

\* the latest call parsed a file that is blank or has a header row only
ParsedEmpty ==
    /\ call.file # None
    /\ \/ call.file.content.kind = "blank"
       \/ call.file.content.kind = "table" /\ Len(call.file.content.rows) = 0

\* the header positions named name that have a value in the data row
ValuedColumns(name) ==
    {i \in 1..Len(call.file.content.header) :
        /\ i <= Len(call.file.content.rows[1])
        /\ call.file.content.header[i].text = name}

\* the values the data row holds for the column named name
ColumnValues(name) ==
    {CellValue(call.file.content.rows[1][i]) : i \in ValuedColumns(name)}

\* C1: for a score file with a data row and a known true_k, a column
\* k=<true_k> with a value makes that value the score of the metric record
\* and leaves missing_true_k_score false
C1_ScoreAtTrueK ==
    (/\ ParsedTable
     /\ call.true_k # None
     /\ ValuedColumns(KColumn(call.true_k.v)) # {})
    => /\ call.metric_result # None
       /\ call.metric_result.v["score"] \in ColumnValues(KColumn(call.true_k.v))
       /\ call.metric_result.v["missing_true_k_score"] = PyBool(FALSE)

\* header k=2,k=3 with two different values and true_k = 2: the score is
\* the value under k=2
C1_Witness ==
    /\ ParsedTable
    /\ call.file.content.header = <<Cell("k=2"), Cell("k=3")>>
    /\ call.file.content.rows[1] = <<"0.5", "0.501953125">>
    /\ call.true_k = PyInt(2)
    /\ call.metric_result.v["score"] = PyFloat(512)
    /\ call.metric_result.v["missing_true_k_score"] = PyBool(FALSE)

\* two scores of the 1/1024 grid differ by more than 1e-3 exactly when they
\* are two or more steps apart: 1/1024 < 1e-3 < 2/1024
ApartByMoreThanEpsilon(a, b) == a - b >= 2 \/ b - a >= 2

\* a column name occurs twice among the valued columns, its first
\* occurrence and a later one hold numbers, and the numbers differ by more
\* than 1e-3
DuplicateDiffers ==
    LET header == call.file.content.header
        data == call.file.content.rows[1]
    IN \E i, j \in 1..Len(header) :
          /\ i < j
          /\ j <= Len(data)
          /\ header[i].text = header[j].text
          /\ \A h \in 1..(i - 1) : header[h].text # header[i].text
          /\ ParsesAsFloat(data[i])
          /\ ParsesAsFloat(data[j])
          /\ ApartByMoreThanEpsilon(FloatOf(data[i]), FloatOf(data[j]))

\* C4: duplicate_k_anomaly is true exactly when a column name, quotes
\* stripped, occurs more than once and the number under a later occurrence
\* differs by more than 1e-3 from the number under the first occurrence
C4_DuplicateAnomaly ==
    ParsedTable =>
        /\ call.duplicate_k_anomaly = DuplicateDiffers
        /\ "duplicate_k_anomaly" \notin {call.file.content.header[i].text :
                                            i \in 1..Len(call.file.content.header)}
           => call.metric_result.v["duplicate_k_anomaly"] = PyBool(DuplicateDiffers)

\* k=2 and "k=2" two grid steps apart raise the flag
C4_Witness ==
    /\ ParsedTable
    /\ call.file.content.header = <<Cell("k=2"), QuotedCell("k=2")>>
    /\ call.file.content.rows[1] = <<"0.5", "0.501953125">>
    /\ call.metric_result.v["duplicate_k_anomaly"] = PyBool(TRUE)

\* k=2 and "k=2" one grid step apart leave the flag false
C4_WithinTolerance ==
    /\ ParsedTable
    /\ call.file.content.header = <<Cell("k=2"), QuotedCell("k=2")>>
    /\ call.file.content.rows[1] = <<"0.5", "0.5009765625">>
    /\ call.metric_result.v["duplicate_k_anomaly"] = PyBool(FALSE)

\* C5: the metric record stores, for a column name that occurs more than
\* once, the value of its first occurrence, and the score at k = true_k is
\* that first value
C5_FirstOccurrenceKept ==
    ParsedTable =>
        \A i \in 1..Len(call.file.content.header) :
            LET name == call.file.content.header[i].text
            IN ValuedColumns(name) # {} =>
                /\ call.metric_result.v[name] =
                      CellValue(call.file.content.rows[1][Min(ValuedColumns(name))])
                /\ (call.true_k # None /\ name = KColumn(call.true_k.v))
                   => call.metric_result.v["score"] =
                         CellValue(call.file.content.rows[1][Min(ValuedColumns(name))])

\* the record has no value under the column k=<true_k>
NoTrueKColumn ==
    /\ call.true_k # None
    /\ KColumn(call.true_k.v) \notin DOMAIN call.metric_result.v

\* C6 as stated: in every metric record missing_true_k_score is true
\* exactly when true_k is known and the record has no value for the column
\* k=<true_k>
C6_MissingFlagEveryRecord ==
    call.metric_result # None =>
        call.metric_result.v["missing_true_k_score"] = PyBool(NoTrueKColumn)

\* C6: in the metric record of a file with a data row
\* missing_true_k_score is true exactly when true_k is known and the record
\* has no value for the column k=<true_k>; in the metric record of an empty
\* file it is false
C6_MissingFlag ==
    /\ ParsedTable =>
          call.metric_result.v["missing_true_k_score"] = PyBool(NoTrueKColumn)
    /\ ParsedEmpty =>
          call.metric_result.v["missing_true_k_score"] = PyBool(FALSE)

\* a data row without the column k=2 of a dataset with true_k = 2
C6_Witness ==
    /\ ParsedTable
    /\ call.true_k = PyInt(2)
    /\ call.file.content.header = <<Cell("k=3")>>
    /\ call.file.content.rows[1] = <<"0.5">>
    /\ call.metric_result.v["missing_true_k_score"] = PyBool(TRUE)

\* the keys of a metric record that holds no column of the score table
MetricKeys ==
    {"source_dir", "backend", "run_timestamp", "dataset_generator",
     "dataset_name", "true_k", "has_noise", "method", "seed", "metric",
     "score", "runtime", "duplicate_k_anomaly", "empty_file",
     "missing_true_k_score"}

\* C7: a blank score file and a score file with a header row and no data
\* row give a method record and a metric record, the metric record with
\* empty_file true, score None and no column of the score table
C7_EmptyFile ==
    ParsedEmpty =>
        /\ call.method_result # None
        /\ call.metric_result # None
        /\ call.metric_result.v["empty_file"] = PyBool(TRUE)
        /\ call.metric_result.v["score"] = None
        /\ DOMAIN call.metric_result.v = MetricKeys
        /\ all_method_results = <<call.method_result.v>>
        /\ all_metric_results = <<call.metric_result.v>>

\* a header k=2,k=3 without a data row, for a dataset with true_k = 2
C7_Witness ==
    /\ call.file # None
    /\ call.file.content = Table(<<Cell("k=2"), Cell("k=3")>>, <<>>)
    /\ call.true_k = PyInt(2)
    /\ call.metric_result # None
    /\ call.metric_result.v["empty_file"] = PyBool(TRUE)

\* the latest call was given a file whose content cannot be read
ParsedUnreadable ==
    /\ call.file # None
    /\ call.file.content.kind = "unreadable"

\* C8 as stated: an unreadable score file gives a metric record with
\* empty_file true, score None and no column of the score table
C8_UnreadableIsEmptyRecord ==
    ParsedUnreadable =>
        /\ call.metric_result # None
        /\ call.metric_result.v["empty_file"] = PyBool(TRUE)
        /\ call.metric_result.v["score"] = None
        /\ DOMAIN call.metric_result.v = MetricKeys

\* C8: an unreadable score file gives no method record and no metric
\* record, and process_run collects nothing for it
C8_UnreadableDropped ==
    ParsedUnreadable =>
        /\ call.method_result = None
        /\ call.metric_result = None
        /\ all_method_results = <<>>
        /\ all_metric_results = <<>>
        /\ all_duplicate_k_anomaly_files = <<>>

\* the call on an unreadable file has returned through the except clause
C8_Witness ==
    /\ ParsedUnreadable
    /\ call.raised
    /\ call.metric_result = None
    /\ score_files = <<>>

\* C9: in every metric record the flags duplicate_k_anomaly, empty_file and
\* missing_true_k_score are booleans
C9_FlagsAreBooleans ==
    call.metric_result # None =>
        \A flag \in {"duplicate_k_anomaly", "empty_file", "missing_true_k_score"} :
            call.metric_result.v[flag].t = "bool"

\* C5: k=2 twice with two values: the record holds the later value
C5_LastOccurrenceStored ==
    /\ ParsedTable
    /\ call.file.content.header = <<Cell("k=2"), Cell("k=2")>>
    /\ call.file.content.rows[1] = <<"0.5", "0.501953125">>
    /\ call.true_k = PyInt(2)
    /\ call.k_values["k=2"] = PyFloat(512)
    /\ call.metric_result.v["k=2"] = PyFloat(514)
    /\ call.metric_result.v["score"] = PyFloat(514)

\* C9: a column named empty_file puts its value where the flag was
C9_FlagOverwritten ==
    /\ ParsedTable
    /\ call.file.content.header = <<Cell("empty_file"), Cell("k=2")>>
    /\ call.file.content.rows[1] = <<"0.5", "0.501953125">>
    /\ call.metric_result.v["empty_file"] = PyFloat(512)

----------------------------------------------------------------------------
(* Properties of extract_dataset_true_k_and_noise                          *)

\* the number a line of a label file denotes, in halves
LabelValue(line) ==
    CASE line = "0" -> 0
      [] line = "1" -> 2
      [] line = "1.0" -> 2
      [] line = "2" -> 4
      [] line = "2.5" -> 5
      [] OTHER -> 6

\* the directories of the parsed score file's path, counted from the
\* directory that holds the file, that are at most 10 levels up and are
\* named with both dataset tokens
CalledDatasetDirs ==
    {i \in 1..Len(call.file.dirs) :
        /\ Len(call.file.dirs) - i + 1 <= 10
        /\ call.file.dirs[i].name.kind = "dataset"}

\* the label files of the nearest such directory
CalledLabelFiles ==
    IF CalledDatasetDirs = {} THEN <<>>
    ELSE call.file.dirs[CHOOSE i \in CalledDatasetDirs :
                           \A h \in CalledDatasetDirs : h <= i].label_files

\* the distinct non-zero label values of a label file
DistinctNonZero(f) ==
    {LabelValue(f.lines[i]) : i \in {h \in 1..Len(f.lines) : f.lines[h] # ""}} \ {0}

\* a label file that can be read and holds numbers only
Numeric(f) ==
    /\ f.readable
    /\ \A i \in 1..Len(f.lines) :
          f.lines[i] \in {"", "0", "1", "1.0", "2", "2.5", "3"}

\* a label file of integer labels, one per line
IntegerLabels(f) ==
    /\ Numeric(f)
    /\ \A i \in 1..Len(f.lines) : f.lines[i] # "" => LabelValue(f.lines[i]) % 2 = 0

\* the label files a true_k can come from: numeric, with a non-zero label
UsableLabelFiles ==
    {j \in 1..Len(CalledLabelFiles) :
        /\ Numeric(CalledLabelFiles[j])
        /\ DistinctNonZero(CalledLabelFiles[j]) # {}}

\* the label file a true_k came from: the first usable one
UsedLabelFile == CalledLabelFiles[Min(UsableLabelFiles)]

\* C10: a true_k that is not None came from a label file and is the number
\* of distinct non-zero label values of that file, a file of integer labels
C10_TrueKCountsLabels ==
    (call.file # None /\ call.true_k # None) =>
        /\ UsableLabelFiles # {}
        /\ IntegerLabels(UsedLabelFile)
           => call.true_k = PyInt(Cardinality(DistinctNonZero(UsedLabelFile)))

\* labels 0, 1 and 1.0 in the first file: one distinct non-zero value
C10_Witness ==
    /\ call.file # None
    /\ CalledLabelFiles = <<LabelFile(<<"1", "0", "1.0">>)>>
    /\ call.true_k = PyInt(1)

\* a first file of noise only is passed over for the second
C10_SecondFileUsed ==
    /\ call.file # None
    /\ CalledLabelFiles = <<LabelFile(<<"0", "0">>), LabelFile(<<"3", "2", "1", "0">>)>>
    /\ call.true_k = PyInt(3)

\* the label value 0 occurs in a label file
ZeroOccurs(f) ==
    \E i \in 1..Len(f.lines) : f.lines[i] # "" /\ LabelValue(f.lines[i]) = 0

\* the label files of the dataset that are found and parsable
ParsableLabelFiles ==
    {j \in 1..Len(CalledLabelFiles) : Numeric(CalledLabelFiles[j])}

\* C11: for a dataset whose label file is found and parsable, has_noise is
\* true exactly when the label value 0 occurs in that file, a file of 0
\* labels only included
C11_NoiseIffZero ==
    (call.file # None /\ ParsableLabelFiles # {}) =>
        (call.has_noise = PyBool(TRUE))
            = ZeroOccurs(CalledLabelFiles[Min(ParsableLabelFiles)])

\* C11: a single label file of 0 labels only resolves to no ground truth
C11_NoiseOnlyUnknown ==
    /\ call.file # None
    /\ CalledLabelFiles = <<LabelFile(<<"0", "0">>)>>
    /\ call.true_k = None
    /\ call.has_noise = None

\* C12: without a directory named with both dataset tokens within 10
\* levels of the score file, or without a usable label file in it, true_k
\* and has_noise are None in the call and in both records; a true_k is
\* None or an integer greater than 0
C12_UnknownNotZero ==
    call.file # None =>
        /\ UsableLabelFiles = {} => call.true_k = None /\ call.has_noise = None
        /\ call.true_k = None \/ (call.true_k.t = "int" /\ call.true_k.v > 0)
        /\ call.method_result # None =>
              /\ call.method_result.v["true_k"] = call.true_k
              /\ call.method_result.v["has_noise"] = call.has_noise
        /\ call.metric_result # None =>
              /\ call.metric_result.v["true_k"] = call.true_k
              /\ call.metric_result.v["has_noise"] = call.has_noise

\* a dataset directory with labels 11 levels above the score file
C12_Witness ==
    /\ call.file # None
    /\ call.file.dirs[2] =
          [Dir(DatasetDir("fcps", "atom")) EXCEPT !.label_files = TwoClusters]
    /\ Len(call.file.dirs) = 12
    /\ call.metric_result # None
    /\ call.metric_result.v["true_k"] = None
    /\ call.metric_result.v["dataset_name"] = PyStr("atom")

\* the same directory 10 levels above the score file is found
C12_TenLevels ==
    /\ call.file # None
    /\ call.file.dirs[2] =
          [Dir(DatasetDir("fcps", "atom")) EXCEPT !.label_files = TwoClusters]
    /\ Len(call.file.dirs) = 11
    /\ call.true_k = PyInt(2)

----------------------------------------------------------------------------
(* Properties of the identity resolver, read off the records of the latest *)
(* call and the path of the file it parsed                                 *)

\* the path of the parsed score file; its last directory holds the file
CalledDirs == call.file.dirs

Libraries == {"agglomerative", "fastcluster", "sklearn"}

\* a method token with its hyphens rewritten
Normalized(tok) == IF tok = "k-means" THEN "k_means" ELSE tok

\* the integer a string of digits denotes
SeedDigits(c) ==
    CASE c = "1" -> 1
      [] c = "01" -> 1
      [] c = "2" -> 2
      [] OTHER -> 123

\* <library>_linkage-<token>
LibraryLinkage(library, token) ==
    CASE library = "agglomerative" /\ token = "ward" -> "agglomerative_linkage-ward"
      [] library = "fastcluster" /\ token = "ward" -> "fastcluster_linkage-ward"
      [] library = "sklearn" /\ token = "ward" -> "sklearn_linkage-ward"
      [] library = "agglomerative" /\ token = "average" -> "agglomerative_linkage-average"
      [] library = "fastcluster" /\ token = "average" -> "fastcluster_linkage-average"
      [] OTHER -> "sklearn_linkage-average"

\* a seed of a sidecar that has an integer value
IntegerSeed(x) == x.t = "int" \/ (x.t = "str" /\ x.v \in {"1", "01", "2", "123"})

SeedValue(x) == IF x.t = "int" THEN x.v ELSE SeedDigits(x.v)

\* the sidecar of directory i has a non-empty string under method
SidecarHasMethod(i) ==
    /\ CalledDirs[i].params.kind = "dict"
    /\ "method" \in DOMAIN CalledDirs[i].params.d
    /\ CalledDirs[i].params.d["method"].t = "str"
    /\ CalledDirs[i].params.d["method"].v # ""

\* the sidecar of directory i supplies the method: a non-empty string under
\* method and, under seed, nothing or an integer value
SuppliesMethod(i) ==
    /\ SidecarHasMethod(i)
    /\ "seed" \in DOMAIN CalledDirs[i].params.d
       => IntegerSeed(CalledDirs[i].params.d["seed"])

\* the name of directory i encodes the method: method-<tok>, or
\* linkage-<tok> under a clustering library
NamesMethod(i) ==
    \/ CalledDirs[i].name.kind = "method"
    \/ /\ CalledDirs[i].name.kind = "linkage"
       /\ i > 1
       /\ CalledDirs[i - 1].name.kind = "plain"
       /\ CalledDirs[i - 1].name.a \in Libraries

\* directory i is within 5 levels of the score file
WithinFiveLevels(i) == i \in 1..Len(CalledDirs) /\ Len(CalledDirs) - i + 1 <= 5

\* the upward search visits directory i: it is within 5 levels and no
\* directory nearer to the score file resolved the method
Visited(i) ==
    /\ WithinFiveLevels(i)
    /\ \A h \in (i + 1)..Len(CalledDirs) : ~SuppliesMethod(h) /\ ~NamesMethod(h)

ResolvedMethod == call.method_result.v["method"]
ResolvedSeed == call.method_result.v["seed"]

\* the seed a directory name gives: the integer of its suffix, or None
SeedOfName(name) == IF name.c # "" THEN PyInt(SeedDigits(name.c)) ELSE None

\* C13 as stated: a visited directory named method-<tok> gives the
\* normalized <tok> as the method, whatever its parameters.json says
C13_DirectoryNameFirst ==
    call.file # None =>
        \A i \in 1..Len(CalledDirs) :
            (Visited(i) /\ CalledDirs[i].name.kind = "method")
            => ResolvedMethod = PyStr(Normalized(CalledDirs[i].name.a))

\* C13: the sidecar is tried before the directory name: a visited
\* directory named method-<tok> gives the method of its parameters.json
\* when that supplies one, and the normalized <tok> otherwise; a
\* parameters.json without a method recovers no seed
C13_SidecarFirst ==
    call.file # None =>
        \A i \in 1..Len(CalledDirs) :
            (Visited(i) /\ CalledDirs[i].name.kind = "method")
            => /\ SuppliesMethod(i) =>
                    ResolvedMethod =
                        PyStr(Normalized(CalledDirs[i].params.d["method"].v))
               /\ ~SuppliesMethod(i) =>
                    /\ ResolvedMethod = PyStr(Normalized(CalledDirs[i].name.a))
                    /\ ResolvedSeed = SeedOfName(CalledDirs[i].name)

\* method-k-means_seed-01 holding {method: dbscan, seed: 456}
C13_Witness ==
    /\ call.file # None
    /\ Visited(4)
    /\ CalledDirs[4].name = MethodDir("k-means", "01")
    /\ CalledDirs[4].params = DbscanWithSeed
    /\ ResolvedMethod = PyStr("dbscan")
    /\ ResolvedSeed = PyInt(456)

\* C14: a visited directory whose parameters.json has a non-empty method
\* and an integer seed gives that method, normalized, and the integer of
\* the seed, whatever the directory is named; without a seed key the seed
\* is None
C14_SidecarMethodAndSeed ==
    call.file # None =>
        \A i \in 1..Len(CalledDirs) :
            (Visited(i) /\ SuppliesMethod(i))
            => /\ ResolvedMethod =
                     PyStr(Normalized(CalledDirs[i].params.d["method"].v))
               /\ ResolvedSeed =
                     IF "seed" \in DOMAIN CalledDirs[i].params.d
                     THEN PyInt(SeedValue(CalledDirs[i].params.d["seed"]))
                     ELSE None

\* method-kmeans holding {method: k-means, seed: "01"}
C14_Witness ==
    /\ call.file # None
    /\ Visited(4)
    /\ CalledDirs[4].name = MethodDir("kmeans", "")
    /\ CalledDirs[4].params =
          Params(("method" :> PyStr("k-means")) @@ ("seed" :> PyStr("01")))
    /\ ResolvedMethod = PyStr("k_means")
    /\ ResolvedSeed = PyInt(1)

\* a plain directory four levels above the one that holds the score file
C14_FifthLevel ==
    /\ call.file # None
    /\ Visited(3)
    /\ Len(CalledDirs) = 7
    /\ CalledDirs[3].params = DbscanWithSeed
    /\ ResolvedMethod = PyStr("dbscan")

\* C15: a visited directory named method-<name>_seed-<digits> whose
\* parameters.json supplies no method gives method <name>, normalized, and
\* the integer of <digits>; named method-<name> it gives seed None
C15_MethodDirectoryName ==
    call.file # None =>
        \A i \in 1..Len(CalledDirs) :
            (/\ Visited(i)
             /\ CalledDirs[i].name.kind = "method"
             /\ ~SidecarHasMethod(i))
            => /\ ResolvedMethod = PyStr(Normalized(CalledDirs[i].name.a))
               /\ CalledDirs[i].name.c # ""
                  => ResolvedSeed = PyInt(SeedDigits(CalledDirs[i].name.c))
               /\ CalledDirs[i].name.c = "" => ResolvedSeed = None

\* method-kmeans_seed-123
C15_Witness ==
    /\ call.file # None
    /\ Visited(4)
    /\ CalledDirs[4].name = MethodDir("kmeans", "123")
    /\ CalledDirs[4].params = NoParams
    /\ ResolvedMethod = PyStr("kmeans")
    /\ ResolvedSeed = PyInt(123)

\* C16: a visited directory named linkage-<token> under a clustering
\* library, whose parameters.json supplies no method, gives the method
\* <library>_linkage-<token>, and the integer of a _seed-<digits> suffix
\* as the seed, None without a suffix
C16_LinkageMethod ==
    call.file # None =>
        \A i \in 2..Len(CalledDirs) :
            (/\ Visited(i)
             /\ CalledDirs[i].name.kind = "linkage"
             /\ CalledDirs[i - 1].name.kind = "plain"
             /\ CalledDirs[i - 1].name.a \in Libraries
             /\ ~SuppliesMethod(i))
            => /\ ResolvedMethod =
                     PyStr(LibraryLinkage(CalledDirs[i - 1].name.a,
                                          CalledDirs[i].name.a))
               /\ ResolvedSeed = SeedOfName(CalledDirs[i].name)

\* sklearn/linkage-average_seed-2
C16_Witness ==
    /\ call.file # None
    /\ Visited(4)
    /\ CalledDirs[3].name = PlainDir("sklearn")
    /\ CalledDirs[4].name = LinkageDir("average", "2")
    /\ ResolvedMethod = PyStr("sklearn_linkage-average")
    /\ ResolvedSeed = PyInt(2)

\* no rule resolves the method: within 5 levels no name encodes it and no
\* sidecar has a non-empty string under method
MethodUnresolved ==
    \A i \in 1..Len(CalledDirs) :
        WithinFiveLevels(i) => ~NamesMethod(i) /\ ~SidecarHasMethod(i)

\* no rule resolves the metric
MetricUnresolved ==
    /\ \A i \in 1..Len(CalledDirs) : CalledDirs[i].name.kind # "metric"
    /\ LET p == CalledDirs[Len(CalledDirs)].params
       IN ~(p.kind = "dict" /\ "metric" \in DOMAIN p.d /\ p.d["metric"] # PyStr(""))

\* no rule resolves the dataset: no name encodes it and no directory from
\* the one that holds the score file upward has a parameters.json object
DatasetUnresolved ==
    \A i \in 1..Len(CalledDirs) :
        /\ CalledDirs[i].name.kind # "dataset"
        /\ CalledDirs[i].params.kind # "dict"

\* C17: the three lookups return for every path and every sidecar: the
\* records exist, the fields are strings and the seed None or an integer;
\* an unresolved method, metric or dataset field is the empty string, and
\* the seed of an unresolved method is None
C17_NeverRaisesEmptyWhenUnresolved ==
    call.file # None =>
        /\ call.method_result # None
        /\ call.metric_result # None
        /\ ResolvedMethod.t = "str"
        /\ ResolvedSeed = None \/ ResolvedSeed.t = "int"
        /\ call.metric_result.v["metric"].t = "str"
        /\ call.method_result.v["dataset_generator"].t = "str"
        /\ call.method_result.v["dataset_name"].t = "str"
        /\ MethodUnresolved => ResolvedMethod = PyStr("") /\ ResolvedSeed = None
        /\ MetricUnresolved => call.metric_result.v["metric"] = PyStr("")
        /\ DatasetUnresolved =>
              /\ call.method_result.v["dataset_generator"] = PyStr("")
              /\ call.method_result.v["dataset_name"] = PyStr("")

\* nothing names the identity and the sidecars are not JSON
C17_Witness ==
    /\ call.file # None
    /\ MethodUnresolved
    /\ MetricUnresolved
    /\ DatasetUnresolved
    /\ CalledDirs[4].params = BadParams
    /\ CalledDirs[Len(CalledDirs)].params = BadParams
    /\ ResolvedMethod = PyStr("")
    /\ call.metric_result.v["metric"] = PyStr("")
    /\ call.method_result.v["dataset_name"] = PyStr("")

----------------------------------------------------------------------------
(* Properties of main with a worker pool *)

\* the merged lists of main
MergedLists(ms) ==
    [all_method_results |-> ms.all_method_results,
     all_metric_results |-> ms.all_metric_results,
     all_duplicate_k_anomaly_files |-> ms.all_duplicate_k_anomaly_files]

\* main has merged the results of every root
AllMerged == (pc = "main" /\ ri = Len(root_dirs)) \/ pc = "done"

\* the result tuples of the roots, in the order of the command line
ResultsInRootOrder == [i \in 1..Len(root_dirs) |-> process_run(root_dirs[i])]

\* C18: with the pool or with the sequential loop, and in whatever order
\* the workers finish, the merged method results, metric results and
\* anomaly files are those of the roots taken one after the other in the
\* order of the command line
C18_PoolAsSequential ==
    AllMerged =>
        MergedLists(main_state) =
            MergedLists(MergeResults(ResultsInRootOrder, 1, EmptyMain))

\* three roots with different results given to two workers; the worker
\* on the second root finished first, the worker on the first root last
C18_Witness ==
    /\ pc = "done"
    /\ pool.cores = 2
    /\ Len(root_dirs) = 3
    /\ pool.finished = <<2, 3, 1>>
    /\ process_run(root_dirs[1]) # process_run(root_dirs[2])
    /\ main_state.all_metric_results # <<>>
    /\ main_state.all_duplicate_k_anomaly_files # <<>>

\* the same roots processed by the sequential loop
C18_Sequential ==
    /\ pc = "done"
    /\ pool.cores = 1
    /\ Len(root_dirs) = 3
    /\ process_run(root_dirs[1]) # process_run(root_dirs[2])
    /\ main_state.all_duplicate_k_anomaly_files # <<>>

----------------------------------------------------------------------------
(* Properties of the containment of failures *)

\* the score files of run directories, from run directory i, in the order
\* in which process_run meets them, each with its run directory
RECURSIVE FilesOfRunDirs(_, _)
FilesOfRunDirs(rds, i) ==
    IF i > Len(rds) THEN <<>>
    ELSE [j \in 1..Len(rds[i].files) |-> [rd |-> rds[i], file |-> Glob(rds[i])[j]]]
         \o FilesOfRunDirs(rds, i + 1)

\* the score files of the roots from root i, in processing order
RECURSIVE FilesOfRoots(_)
FilesOfRoots(i) ==
    IF i > Len(root_dirs) THEN <<>>
    ELSE FilesOfRunDirs(RunDirsOf(root_dirs[i]), 1) \o FilesOfRoots(i + 1)

\* what process_scores_file returns for a score file, whatever else the
\* run directory and the other roots hold
OnItsOwn(x) ==
    LET name == x.rd.dirs[Len(x.rd.dirs)].name
    IN process_scores_file(x.file, x.file.dirs,
                           extract_backend_timestamp(name)[1],
                           extract_backend_timestamp(name)[2], name)

\* the content of the score file cannot be read
FailsToRead(x) == x.file.content.kind = "unreadable"

\* a directory of the path holds a sidecar that is not JSON
HasCorruptSidecar(x) ==
    \E i \in 1..Len(x.file.dirs) :
        x.file.dirs[i].params = BadParams \/ x.file.dirs[i].perf = BadParams

\* the records of the files that can be read, in processing order
RECURSIVE RecordsOfReadable(_, _, _)
RecordsOfReadable(files, i, which) ==
    IF i > Len(files) THEN <<>>
    ELSE IF FailsToRead(files[i]) THEN RecordsOfReadable(files, i + 1, which)
    ELSE <<IF which = "method" THEN OnItsOwn(files[i]).method_result.v
           ELSE OnItsOwn(files[i]).metric_result.v>>
         \o RecordsOfReadable(files, i + 1, which)

\* C19 as stated: a score file that cannot be read and a score file with
\* a corrupt sidecar both give no record pair
C19_FailingFilesDropped ==
    AllMerged =>
        Len(main_state.all_metric_results) =
            Cardinality({i \in 1..Len(FilesOfRoots(1)) :
                            /\ ~FailsToRead(FilesOfRoots(1)[i])
                            /\ ~HasCorruptSidecar(FilesOfRoots(1)[i])})

\* C19: a score file that cannot be read gives no record pair and a score
\* file with a corrupt sidecar keeps its pair; process_run returns for
\* every root, and every score file that can be read gives the records it
\* gives on its own, in processing order
C19_FailureContained ==
    AllMerged =>
        /\ main_state.source_dirs =
              [i \in 1..Len(root_dirs) |-> BaseName(root_dirs[i].dir.name)]
        /\ main_state.all_method_results =
              RecordsOfReadable(FilesOfRoots(1), 1, "method")
        /\ main_state.all_metric_results =
              RecordsOfReadable(FilesOfRoots(1), 1, "metric")

\* the sequential loop over two roots; the first root holds an unreadable
\* score file before a score file with corrupt sidecars
C19_Witness ==
    /\ pc = "done"
    /\ pool.cores = 1
    /\ Len(root_dirs) = 2
    /\ Len(root_dirs[1].files) = 3
    /\ FailsToRead(FilesOfRoots(1)[2])
    /\ HasCorruptSidecar(FilesOfRoots(1)[3])
    /\ Len(FilesOfRoots(1)) = 6
    /\ Len(main_state.all_metric_results) = 4
    /\ main_state.all_metric_results[2]["metric"] = PyStr("fm")

----------------------------------------------------------------------------
(* Properties of the deduplication *)

KeyFields == {"source_dir", "backend", "run_timestamp", "dataset_generator",
              "dataset_name", "method", "seed"}

\* two method results have the same deduplication key
SameKey(a, b) == \A x \in KeyFields : a[x] = b[x]

\* the position of the first method result with the key of result i
FirstWithKey(i) ==
    Min({j \in 1..Len(main_state.all_method_results) :
            SameKey(main_state.all_method_results[j],
                    main_state.all_method_results[i])})

\* C20: after the deduplication every key of a method result has one
\* kept record, and the kept record is, field by field, the first method
\* result with that key in processing order
C20_FirstSeenWins ==
    pc = "done" =>
        /\ \A i \in 1..Len(main_state.all_method_results) :
              \E h \in 1..Len(main_state.method_df_data) :
                  /\ main_state.method_df_data[h] =
                        main_state.all_method_results[FirstWithKey(i)]
                  /\ \A g \in 1..Len(main_state.method_df_data) :
                        SameKey(main_state.method_df_data[g],
                                main_state.all_method_results[i]) => g = h
        /\ \A h \in 1..Len(main_state.method_df_data) :
              \E i \in 1..Len(main_state.all_method_results) :
                  main_state.method_df_data[h] = main_state.all_method_results[i]

\* a later method result has the key of the first one and another true_k;
\* the kept record has the true_k of the first
C20_Witness ==
    /\ pc = "done"
    /\ Len(main_state.all_method_results) >= 3
    /\ \E i \in 2..Len(main_state.all_method_results) :
          /\ SameKey(main_state.all_method_results[i], main_state.all_method_results[1])
          /\ main_state.all_method_results[i]["true_k"] = PyInt(3)
    /\ main_state.all_method_results[1]["true_k"] = PyInt(2)
    /\ main_state.method_df_data[1]["true_k"] = PyInt(2)

----------------------------------------------------------------------------
(* Properties of the two records of one score file *)

IdentityFields == {"dataset_generator", "dataset_name", "true_k", "has_noise",
                   "method", "seed"}

\* C21: the method record and the metric record of a score file agree on
\* dataset_generator, dataset_name, true_k, has_noise, method and seed,
\* whatever the score table contains
C21_RecordsAgree ==
    (call.method_result # None /\ call.metric_result # None) =>
        \A x \in IdentityFields :
            call.method_result.v[x] = call.metric_result.v[x]

\* C21: a column named method puts its value where the method of the
\* metric record was; the method record keeps the method
C21_MethodColumn ==
    /\ ParsedTable
    /\ call.file.content.header = <<Cell("method"), Cell("k=2")>>
    /\ call.file.content.rows[1] = <<"0.5", "0.501953125">>
    /\ call.method_result.v["method"] = PyStr("kmeans")
    /\ call.metric_result.v["method"] = PyFloat(512)

----------------------------------------------------------------------------
(* Properties of the run directories *)

\* process_run is in the loop of a run directory
InRunDir == pc = "run" /\ run_dir.dirs # <<>>

\* the name of the run directory process_run is in
RunDirName == run_dir.dirs[Len(run_dir.dirs)].name

\* C23: a run directory named out<sep><backend><sep><digits> gives the
\* pair (backend, digits) whichever of _ and - each separator is, so names
\* that differ only in the separators give the same pair
C23_SeparatorVariants ==
    (InRunDir /\ RunDirName.kind = "run" /\ RunDirName.a # "" /\ RunDirName.b # "")
    => /\ run_dir.backend = PyStr(RunDirName.a)
       /\ run_dir.timestamp = PyStr(RunDirName.b)

\* out-conda_202506231301
C23_Witness ==
    /\ InRunDir
    /\ RunDirName = RunDir("-_", "conda", "202506231301")
    /\ run_dir.backend = PyStr("conda")
    /\ run_dir.timestamp = PyStr("202506231301")

\* out_conda-202506231301
C23_UnderscoreFirst ==
    /\ InRunDir
    /\ RunDirName = RunDir("_-", "conda", "202506231301")
    /\ run_dir.backend = PyStr("conda")
    /\ run_dir.timestamp = PyStr("202506231301")

----------------------------------------------------------------------------
(* Properties of the rows after the deduplication *)

\* the method run a score file belongs to: its run directory with the
\* path that leads to it, and the dataset, method and seed of its path
MethodRunOf(x) ==
    <<x.rd.dirs, extract_dataset_info(x.file.dirs), extract_method_info(x.file.dirs)>>

\* the method runs of the score files that gave records
MethodRuns ==
    {MethodRunOf(FilesOfRoots(1)[i]) :
        i \in {j \in 1..Len(FilesOfRoots(1)) : ~FailsToRead(FilesOfRoots(1)[j])}}

\* C22: after the deduplication there is one row per method run: runs of
\* different run directories are not collapsed, and no run has two rows
C22_OneRowPerMethodRun ==
    pc = "done" => Len(main_state.method_df_data) = Cardinality(MethodRuns)

\* C22: two run directories named out_conda-1, one a root and one under
\* another root, hold the same method on datasets of 2 and of 3 clusters:
\* the rows have no record of the second
C22_RunsCollapsed ==
    /\ pc = "done"
    /\ Len(root_dirs) = 2
    /\ \E i, j \in 1..Len(FilesOfRoots(1)) :
          /\ FilesOfRoots(1)[i].rd.dirs # FilesOfRoots(1)[j].rd.dirs
          /\ ~FailsToRead(FilesOfRoots(1)[i])
          /\ ~FailsToRead(FilesOfRoots(1)[j])
          /\ OnItsOwn(FilesOfRoots(1)[i]).method_result.v["true_k"] = PyInt(2)
          /\ OnItsOwn(FilesOfRoots(1)[j]).method_result.v["true_k"] = PyInt(3)
    /\ \A h \in 1..Len(main_state.method_df_data) :
          main_state.method_df_data[h]["true_k"] # PyInt(3)

\* the rows are one per (name of the run directory, backend, timestamp,
\* dataset, method, seed)
C22_OneRowPerRunName ==
    pc = "done" =>
        Len(main_state.method_df_data) =
            Cardinality({<<BaseName(FilesOfRoots(1)[i].rd.dirs[Len(FilesOfRoots(1)[i].rd.dirs)].name),
                           MethodRunOf(FilesOfRoots(1)[i])[2],
                           MethodRunOf(FilesOfRoots(1)[i])[3]>> :
                i \in {j \in 1..Len(FilesOfRoots(1)) : ~FailsToRead(FilesOfRoots(1)[j])}})

----------------------------------------------------------------------------
(* Properties of the performance sidecars *)

\* the directory three levels above the one that holds the score file: the
\* method directory of the usual layout
UsualMethodDir == CalledDirs[Len(CalledDirs) - 3]

\* the float under the column named s of a performance file, as the file
\* is written; None without the file, the column, the cell or a number
ValueUnderS(file) ==
    LET at == {i \in 1..Len(file.header) : file.header[i] = "s"}
    IN IF file.exists /\ at # {} /\ Min(at) <= Len(file.data)
          /\ file.data[Min(at)] \in {"1.5", "2.0"}
       THEN (IF file.data[Min(at)] = "1.5" THEN PyFloat(1536) ELSE PyFloat(2048))
       ELSE None

\* C24: execution_time_seconds is the float under the column named s of
\* the performance file of the method directory, and None when the file,
\* the column or a parsable value is missing
C24_FloatUnderS ==
    (call.file # None /\ UsualMethodDir.name.kind = "method")
    => call.method_result.v["execution_time_seconds"]
          = ValueUnderS(UsualMethodDir.performance)

\* C24: header h, s, m and a data line whose first cell is empty: the
\* value returned is the one under m
C24_ShiftedColumn ==
    /\ call.file # None
    /\ UsualMethodDir.performance = Performance(<<"h", "s", "m">>, <<"", "1.5", "2.0">>)
    /\ call.method_result.v["execution_time_seconds"] = PyFloat(2048)

\* the six fields are None without a readable perf.json in the method
\* directory, and with one each field is its key's value, None when the
\* key is missing
C24_PerfFields ==
    (call.file # None /\ UsualMethodDir.name.kind = "method")
    => \A x \in DOMAIN PerfKeys :
          call.method_result.v[x] =
              IF /\ UsualMethodDir.perf.kind = "dict"
                 /\ PerfKeys[x] \in DOMAIN UsualMethodDir.perf.d
              THEN UsualMethodDir.perf.d[PerfKeys[x]]
              ELSE None

\* the method directory of a path: the nearest directory named method-<m>
\* or linkage-<l>
MethodDirOf ==
    CalledDirs[Max({i \in 1..Len(CalledDirs) :
                      CalledDirs[i].name.kind \in {"method", "linkage"}})]

\* C29: when the method directory holds a performance file with 1.5 under
\* s and a perf.json with total_time_secs 2.5, both readers read them
\* there, at every depth of the score file and for both kinds of method
\* directory
C29_SameMethodDirectory ==
    (/\ call.file # None
     /\ MethodDirOf.performance = SecondsFile
     /\ "total_time_secs" \in DOMAIN MethodDirOf.perf.d)
    => /\ call.method_result.v["execution_time_seconds"] = PyFloat(1536)
       /\ call.method_result.v["runtime"] = PyFloat(2560)

\* C29: the score file one level deeper than usual: perf.json is read in
\* the method directory, the performance file is looked for elsewhere
C29_DifferentDirectories ==
    /\ call.file # None
    /\ Len(CalledDirs) = 8
    /\ MethodDirOf.name = MethodDir("kmeans", "1")
    /\ MethodDirOf.performance = SecondsFile
    /\ call.method_result.v["runtime"] = PyFloat(2560)
    /\ call.method_result.v["execution_time_seconds"] = None

----------------------------------------------------------------------------
(* Properties of process_run and main                                      *)

\* the run directories process_run finds under a root
RunDirSet(root) == {RunDirsOf(root)[j] : j \in 1..Len(RunDirsOf(root))}

\* the score files enumerated under a root, each with its run directory
FilesUnder(root) ==
    {<<rd, i>> : rd \in RunDirSet(root), i \in 1..MaxFiles + 1} \cap
    UNION {{<<rd, i>> : i \in 1..Len(rd.files)} : rd \in RunDirSet(root)}

Readable(f) == f.content.kind # "unreadable"

\* (run, dataset, method, seed) of a score file of a run directory
IdentityOf(rd, f) ==
    <<BaseName(rd.dirs[Len(rd.dirs)].name),
      extract_dataset_info(rd.dirs \o f.subdirs),
      extract_method_info(rd.dirs \o f.subdirs)>>

\* (run, dataset, method, seed) of a record
RecordIdentity(rec) ==
    <<rec["source_dir"],
      <<rec["dataset_generator"], rec["dataset_name"]>>,
      [method |-> rec["method"], seed |-> rec["seed"]]>>

\* how many records of a list carry an identity
CountOf(records, id) ==
    Cardinality({j \in 1..Len(records) : RecordIdentity(records[j]) = id})

\* C2 as stated: an identity met under N metric directories of one run
\* directory gives one method record and N metric records
C2_OnePerIdentityEveryFile ==
    pc = "done" =>
        \A r \in 1..Len(root_dirs) : \A rd \in RunDirSet(root_dirs[r]) :
            \A i \in 1..Len(rd.files) :
                LET id == IdentityOf(rd, rd.files[i])
                    N == Cardinality({h \in 1..Len(rd.files) :
                                         IdentityOf(rd, rd.files[h]) = id})
                IN /\ CountOf(main_state.method_df_data, id) = 1
                   /\ CountOf(main_state.all_metric_results, id) = N

\* C2: an identity met in N readable score files under different metric
\* directories of one run directory, N >= 1, gives one method record and N
\* metric records; its unreadable score files give none
C2_OnePerIdentity ==
    pc = "done" =>
        \A r \in 1..Len(root_dirs) : \A rd \in RunDirSet(root_dirs[r]) :
            \A i \in 1..Len(rd.files) :
                LET id == IdentityOf(rd, rd.files[i])
                    N == Cardinality({h \in 1..Len(rd.files) :
                                         /\ IdentityOf(rd, rd.files[h]) = id
                                         /\ Readable(rd.files[h])})
                IN /\ CountOf(main_state.method_df_data, id) = (IF N >= 1 THEN 1 ELSE 0)
                   /\ CountOf(main_state.all_metric_results, id) = N

\* one run directory with the same method run under three metric
\* directories, all readable
C2_Witness ==
    /\ pc = "done"
    /\ Len(root_dirs) = 1
    /\ Len(root_dirs[1].files) = 3
    /\ \A i \in 1..3 :
          /\ Readable(root_dirs[1].files[i])
          /\ IdentityOf(RunDirsOf(root_dirs[1])[1], root_dirs[1].files[i])
                = IdentityOf(RunDirsOf(root_dirs[1])[1], root_dirs[1].files[1])
    /\ Len(main_state.method_df_data) = 1
    /\ Len(main_state.all_metric_results) = 3

\* process_run has returned for the root before position ri
Returned == pc = "main" /\ ri > 0

\* C3 as stated: process_run returns as many metric records as it
\* enumerated score files, whatever the files contain
C3_OneMetricRecordPerFile ==
    Returned =>
        Len(all_metric_results) = Cardinality(FilesUnder(root_dirs[ri]))

\* C3: process_run returns as many metric records as it enumerated score
\* files whose content can be read, identities repeated or not
C3_OneMetricRecordPerReadableFile ==
    Returned =>
        Len(all_metric_results) =
            Cardinality({x \in FilesUnder(root_dirs[ri]) : Readable(x[1].files[x[2]])})

\* a run directory with an unreadable file beside two readable ones
C3_Witness ==
    /\ Returned
    /\ Cardinality(FilesUnder(root_dirs[ri])) = 3
    /\ \E x \in FilesUnder(root_dirs[ri]) : ~Readable(x[1].files[x[2]])
    /\ Len(all_metric_results) = 2

----------------------------------------------------------------------------
(* Properties of the ground truth of the records of a run directory *)

\* C27: the records of one run directory that carry the same
\* (dataset_generator, dataset_name) carry the same (true_k, has_noise)
C27_GroundTruthPerDataset ==
    Returned =>
        \A i, j \in 1..Len(all_metric_results) :
            (/\ all_metric_results[i]["source_dir"] = all_metric_results[j]["source_dir"]
             /\ all_metric_results[i]["dataset_generator"] = all_metric_results[j]["dataset_generator"]
             /\ all_metric_results[i]["dataset_name"] = all_metric_results[j]["dataset_name"])
            => /\ all_metric_results[i]["true_k"] = all_metric_results[j]["true_k"]
               /\ all_metric_results[i]["has_noise"] = all_metric_results[j]["has_noise"]

\* C27: two score files of the run directory out_conda-1 below the same
\* dataset directory, the second more than max_levels below it: the
\* records have true_k 2 and true_k None
C27_DeepFileUnknown ==
    /\ Returned
    /\ root_dirs[1].dir.name = RunDir("_-", "conda", "1")
    /\ Len(all_metric_results) = 2
    /\ all_metric_results[1]["dataset_name"] = PyStr("atom")
    /\ all_metric_results[2]["dataset_name"] = PyStr("atom")
    /\ all_metric_results[1]["true_k"] = PyInt(2)
    /\ all_metric_results[2]["true_k"] = None

----------------------------------------------------------------------------
(* Properties of the backend and timestamp of a root *)

\* what the name of a run directory yields: the pair of a name
\* out<sep><backend><sep><digits>, or (None, None)
Yields(name) ==
    IF name.kind = "run" /\ name.a # "" /\ name.b # ""
    THEN <<PyStr(name.a), PyStr(name.b)>>
    ELSE <<None, None>>

\* the run directories process_run processed under the root it returned
\* from
ProcessedNames ==
    {rd.dirs[Len(rd.dirs)].name : rd \in RunDirSet(root_dirs[ri])}

\* the backend and the timestamp process_run returned, as main merged them
ReportedBackend ==
    IF main_state.all_backends = <<>> THEN None ELSE main_state.all_backends[1]
ReportedTimestamp ==
    IF main_state.all_timestamps = <<>> THEN None ELSE main_state.all_timestamps[1]

\* C25: the backend reported for a root is a value only if every run
\* directory processed under it yielded that backend, and None otherwise;
\* the same for the timestamp
C25_SingleOnlyIfAllAgree ==
    Returned =>
        /\ ReportedBackend # None
           => \A n \in ProcessedNames : Yields(n)[1] = ReportedBackend
        /\ ReportedTimestamp # None
           => \A n \in ProcessedNames : Yields(n)[2] = ReportedTimestamp

\* C25: out_conda-1 beside out_tmp, whose name yields no backend: the
\* root is reported as conda, 1
C25_UnknownIgnored ==
    /\ Returned
    /\ ProcessedNames = {RunDir("_-", "conda", "1"), RunDir("_", "tmp", "")}
    /\ ReportedBackend = PyStr("conda")
    /\ ReportedTimestamp = PyStr("1")

\* every record keeps the backend, timestamp and name of the run
\* directory that contains its score file
C25_RecordsKeepRun ==
    (InRunDir /\ call.file # None /\ call.metric_result # None
       /\ SubSeq(call.file.dirs, 1, Len(run_dir.dirs)) = run_dir.dirs)
    => \A r \in {call.method_result.v, call.metric_result.v} :
          /\ r["backend"] = Yields(RunDirName)[1]
          /\ r["run_timestamp"] = Yields(RunDirName)[2]
          /\ r["source_dir"] = BaseName(RunDirName)

\* C26: a directory whose score files process_run enumerates has a name
\* out<sep><backend><sep><digits>, and every record carries a backend and
\* a run_timestamp
C26_RunDirsMatchConvention ==
    /\ InRunDir => Yields(RunDirName)[1] # None /\ Yields(RunDirName)[2] # None
    /\ call.metric_result # None
       => /\ call.metric_result.v["backend"] # None
          /\ call.metric_result.v["run_timestamp"] # None

\* C26: out_tmp is processed as a run directory and its record has no
\* backend and no run_timestamp
C26_PrefixOnly ==
    /\ InRunDir
    /\ RunDirName = RunDir("_", "tmp", "")
    /\ call.metric_result # None
    /\ call.metric_result.v["source_dir"] = BaseName(RunDir("_", "tmp", ""))
    /\ call.metric_result.v["backend"] = None
    /\ call.metric_result.v["run_timestamp"] = None

----------------------------------------------------------------------------
(* Properties of malformed sidecars *)

\* a parameters.json that is not JSON, or whose seed has no integer value
Malformed(params) ==
    \/ params = BadParams
    \/ /\ params.kind = "dict"
       /\ "seed" \in DOMAIN params.d
       /\ ~IntegerSeed(params.d["seed"])

\* the path without its malformed sidecar files
WithoutMalformed(dirs) ==
    [i \in 1..Len(dirs) |->
        IF Malformed(dirs[i].params) THEN [dirs[i] EXCEPT !.params = NoParams]
        ELSE dirs[i]]

\* C28: the method and seed resolved for a path are those resolved for
\* the path without its malformed sidecar files
C28_MalformedHasNoEffect ==
    call.file # None =>
        [method |-> ResolvedMethod, seed |-> ResolvedSeed]
            = extract_method_info(WithoutMalformed(CalledDirs))

\* C28: a directory named kmeans holding {method: dbscan, seed: abc} and no
\* directory that names the method: the method is dbscan, and without the
\* sidecar it is the empty string
C28_MethodKept ==
    /\ call.file # None
    /\ CalledDirs[4].name = PlainDir("kmeans")
    /\ CalledDirs[4].params =
          Params(("method" :> PyStr("dbscan")) @@ ("seed" :> PyStr("abc")))
    /\ ResolvedMethod = PyStr("dbscan")
    /\ ResolvedSeed = None
    /\ extract_method_info(WithoutMalformed(CalledDirs)).method = PyStr("")

----------------------------------------------------------------------------
(* Properties of the score and the flags of a metric record *)

\* C30: in a metric record the score is a value only if the true_k of the
\* dataset is known, empty_file is false and missing_true_k_score is
\* false; and with empty_file true, duplicate_k_anomaly and
\* missing_true_k_score are false and the record has no column of the
\* score table
C30_ScoreAndFlags ==
    call.metric_result # None =>
        /\ call.metric_result.v["score"] # None
           => /\ call.true_k # None
              /\ call.metric_result.v["empty_file"] = PyBool(FALSE)
              /\ call.metric_result.v["missing_true_k_score"] = PyBool(FALSE)
        /\ call.metric_result.v["empty_file"] = PyBool(TRUE)
           => /\ call.metric_result.v["duplicate_k_anomaly"] = PyBool(FALSE)
              /\ call.metric_result.v["missing_true_k_score"] = PyBool(FALSE)
              /\ DOMAIN call.metric_result.v = MetricKeys

\* C30: a column named empty_file beside k=2, for a dataset with true_k =
\* 2: the record has a score and its empty_file is the value of the column
C30_ScoreWithEmptyFileSet ==
    /\ ParsedTable
    /\ call.file.content.header = <<Cell("empty_file"), Cell("k=2")>>
    /\ call.file.content.rows[1] = <<"0.5", "0.501953125">>
    /\ call.true_k = PyInt(2)
    /\ call.metric_result.v["score"] = PyFloat(514)
    /\ call.metric_result.v["empty_file"] = PyFloat(512)

\* the claim for the tables without a column named empty_file
C30_WithoutFlagColumn ==
    (/\ call.metric_result # None
     /\ \A i \in 1..Len(call.file.content.header) :
           call.file.content.header[i].text # "empty_file")
    => /\ call.metric_result.v["score"] # None
          => /\ call.true_k # None
             /\ call.metric_result.v["empty_file"] = PyBool(FALSE)
             /\ call.metric_result.v["missing_true_k_score"] = PyBool(FALSE)
       /\ call.metric_result.v["empty_file"] = PyBool(TRUE)
          => /\ call.metric_result.v["duplicate_k_anomaly"] = PyBool(FALSE)
             /\ call.metric_result.v["missing_true_k_score"] = PyBool(FALSE)
             /\ DOMAIN call.metric_result.v = MetricKeys

====
